---- MODULE Spec2Model ----
(***************************************************************************)
(* Model of the Fastify webhook route handler returned by                  *)
(* createVortexWebhookHandler (src/handlers/webhooks.ts): the header-arity  *)
(* check, the raw-payload resolution, signature verification, dispatch to  *)
(* the registered handlers and the mapping of every outcome to a response. *)
(*                                                                         *)
(* The verifier (VortexWebhooks.constructEvent) and the dispatcher         *)
(* (VortexWebhooks.handleEvent) live in the Node SDK the adapter depends   *)
(* on; they are modelled from sections 4.1, 4.3 and 4.4 of the             *)
(* specification.  Everything else is translated from the adapter.         *)
(*                                                                         *)
(* An async function runs atomically between its await points, so one      *)
(* action models one such stretch of the handler.                          *)
(***************************************************************************)
EXTENDS Integers, Sequences, FiniteSets, TLC

\* Largest number of values in a repeated X-Vortex-Signature header.
MaxSigValues == 2

(***************************************************************************)
(* Payload texts, events and signatures                                    *)
(***************************************************************************)
EventA == [id |-> "evt_1", type |-> "invitation.accepted"]
EventB == [id |-> "evt_2", type |-> "invitation.created"]
NoEvent == [id |-> "", type |-> ""]
Events == {EventA, EventB}
EventTypes == {e.type : e \in Events}

\* Byte-for-byte different texts; TextASpaced and TextA are the same
\* logical JSON object with different whitespace.
TextA == "{id:evt_1,type:invitation.accepted}"
TextASpaced == "{ id: evt_1, type: invitation.accepted }"
TextB == "{id:evt_2,type:invitation.created}"
TextJunk == "not json"
Texts == {TextA, TextASpaced, TextB, TextJunk}

\* JSON.parse of a payload text.
Parse(t) ==
  CASE t = TextA -> [ok |-> TRUE, event |-> EventA]
    [] t = TextASpaced -> [ok |-> TRUE, event |-> EventA]
    [] t = TextB -> [ok |-> TRUE, event |-> EventB]
    [] OTHER -> [ok |-> FALSE, event |-> NoEvent]

\* JSON.stringify of a parsed object: the compact form, whatever the
\* whitespace of the text the object was parsed from.
Stringify(e) == IF e = EventA THEN TextA ELSE TextB

\* Hex HMAC-SHA256 of the exact payload bytes under the shared secret.
Sign(t) ==
  CASE t = TextA -> "hmac_a"
    [] t = TextASpaced -> "hmac_a_spaced"
    [] t = TextB -> "hmac_b"
    [] OTHER -> "hmac_junk"

BadSig == "invalid_signature"
Sigs == {Sign(t) : t \in Texts} \cup {BadSig}

(***************************************************************************)
(* Requests                                                                *)
(***************************************************************************)
\* JavaScript values of request.rawBody and request.body.
Undefined == [kind |-> "undefined", text |-> "", obj |-> NoEvent]
Null == [kind |-> "null", text |-> "", obj |-> NoEvent]
Str(t) == [kind |-> "string", text |-> t, obj |-> NoEvent]
Buf(t) == [kind |-> "buffer", text |-> t, obj |-> NoEvent]
Obj(e) == [kind |-> "object", text |-> "", obj |-> e]

RawBodies == {Undefined, Null} \cup {Str(t) : t \in Texts} \cup {Buf(t) : t \in Texts}
Bodies == {Undefined} \cup {Str(t) : t \in Texts} \cup {Obj(e) : e \in Events}

\* request.headers['x-vortex-signature']: string | string[] | undefined.
\* Node only yields an array for a header that was sent more than once.
AbsentHeader == [kind |-> "absent", values |-> << >>]
StrHeader(v) == [kind |-> "string", values |-> <<v>>]
ArrHeader(vs) == [kind |-> "array", values |-> vs]

Headers ==
  {AbsentHeader}
    \cup {StrHeader(v) : v \in Sigs \cup {""}}
    \cup {ArrHeader(vs) : vs \in UNION {[1..n -> Sigs] : n \in 2..MaxSigValues}}

Requests == [header : Headers, rawBody : RawBodies, body : Bodies]
NoRequest == [header |-> AbsentHeader, rawBody |-> Undefined, body |-> Undefined]

(***************************************************************************)
(* Errors and response bodies                                              *)
(***************************************************************************)
NoError == [name |-> "", message |-> ""]
SignatureError == [name |-> "VortexWebhookSignatureError", message |-> "Webhook signature verification failed"]
ParseError == [name |-> "SyntaxError", message |-> "Unexpected token"]
OnErrorFailure == [name |-> "Error", message |-> "onError failed"]

\* What a registered event handler may throw or reject with.
HandlerErrors ==
  { [name |-> "Error", message |-> "Handler error"],
    [name |-> "Error", message |-> "db password=hunter2"],
    [name |-> "VortexWebhookSignatureError", message |-> "nested verification failed"] }

\* How an invoked event handler settles.
Fulfilled == [ok |-> TRUE, err |-> NoError]
Rejected(e) == [ok |-> FALSE, err |-> e]
Outcomes == {Fulfilled} \cup {Rejected(e) : e \in HandlerErrors}

\* A message is the sequence of the string pieces the source concatenates.
MsgMultiple == <<"Multiple X-Vortex-Signature headers are not allowed">>
MsgMissing == <<"Missing X-Vortex-Signature header">>
MsgRawBody ==
  <<"Raw request body not available",
    " for signature verification. ",
    "Ensure fastify-raw-body (or an equivalent raw body parser) is configured.">>
MsgInvalidSignature == <<"Invalid signature">>
MsgHandlerError == <<"Webhook handler error">>

ErrorBody(m) == [received |-> FALSE, error |-> m]
ReceivedBody == [received |-> TRUE, error |-> << >>]

(***************************************************************************)
(* State                                                                   *)
(***************************************************************************)
Deliveries == {"d1", "d2"}

VARIABLES
  handlers,   \* the WebhookHandlers registry the handler was created with
  live,       \* the deliveries that arrive in this run
  traffic,    \* which requests may arrive in this run: "any", "pair" or "none"
  inv         \* per delivery: the state of its invocation of the handler

webhookVars == <<handlers, live, traffic, inv>>

\* The configuration singleton of src/config.ts and its callers.
VARIABLES
  configTemplate,     \* let configTemplate: VortexConfig | null
  isConfigLocked,     \* let isConfigLocked
  configPromise,      \* let configPromise: 0 for null, else a promise of `promises`
  lazyConfigFactory,  \* let lazyConfigFactory: NoFactory for null
  envApiKey,          \* process.env.VORTEX_API_KEY, "" when unset
  promises,           \* the promises made by configureVortexAsync and getVortexConfig
  getCalls,           \* per caller: its call of getVortexConfig
  factoryCalls,       \* how often the lazy factory has been invoked
  lastCall,           \* the last configure* call and how it ended
  firstConfig         \* the config of the first configureVortex that succeeded

configVars ==
  <<configTemplate, isConfigLocked, configPromise, lazyConfigFactory, envApiKey,
    promises, getCalls, factoryCalls, lastCall, firstConfig>>

\* The route handlers of src/handlers/invitations.ts and src/handlers/jwt.ts.
VARIABLES
  api                 \* the invocation of a route handler for one request

apiVars == <<api>>

Registries == [onEvent : BOOLEAN, on : SUBSET EventTypes, onError : BOOLEAN]

Idle ==
  [ pc |-> "idle",
    req |-> NoRequest,
    event |-> NoEvent,
    dispatch |-> Fulfilled,
    constructCalls |-> << >>,
    handlerCalls |-> << >>,
    settlements |-> << >>,
    errorCalls |-> << >>,
    errorThrows |-> << >>,
    statusCalls |-> << >>,
    sendCalls |-> << >>,
    trace |-> << >>,
    promise |-> "none",
    rejection |-> NoError,
    inFlight |-> {} ]

(***************************************************************************)
(* Collaborators from the Node SDK (specification sections 4.1, 4.3, 4.4)  *)
(***************************************************************************)
\* verify(rawPayload, signature, secret): recompute the digest over the
\* exact bytes and compare.
VerifySignature(payload, signature) == signature = Sign(payload.text)

\* constructEvent(rawPayload, signature): verify first, then parse.
ConstructEvent(payload, signature) ==
  IF ~VerifySignature(payload, signature)
    THEN [ok |-> FALSE, event |-> NoEvent, err |-> SignatureError]
    ELSE IF ~Parse(payload.text).ok
      THEN [ok |-> FALSE, event |-> NoEvent, err |-> ParseError]
      ELSE [ok |-> TRUE, event |-> Parse(payload.text).event, err |-> NoError]

\* A registered event handler is called with the event; it settles later.
InvokeHandler(s, slot, waitAt) ==
  [s EXCEPT !.handlerCalls = Append(@, [slot |-> slot, event |-> s.event]),
            !.trace = Append(@, slot),
            !.pc = waitAt]

\* The handler called last has settled with `outcome`.
Settled(s, slot, outcome) ==
  [s EXCEPT !.settlements = Append(@, [slot |-> slot, outcome |-> outcome]),
            !.trace = Append(@, IF outcome.ok THEN "fulfilled" ELSE "rejected")]

\* handleEvent's promise settles; the adapter resumes on a later tick.
DispatchSettled(s, result) ==
  [s EXCEPT !.dispatch = result, !.pc = "awaitDispatch"]

\* The type-specific handler keyed by event.type, if one is registered.
DispatchSpecific(s, hs) ==
  IF s.event.type \in hs.on
    THEN InvokeHandler(s, "on", "awaitSpecific")
    ELSE DispatchSettled(s, Fulfilled)

\* Bug: the type-specific handler is looked up before the generic one.
BeginDispatch_SpecificFirst(s, hs) ==
  IF s.event.type \in hs.on
    THEN InvokeHandler(s, "on", "awaitSpecific")
    ELSE IF hs.onEvent
      THEN InvokeHandler(s, "onEvent", "awaitGeneric")
      ELSE DispatchSettled(s, Fulfilled)

\* handleEvent(event, handlers) up to its first await: generic handler first.
BeginDispatch(s, hs) ==
  IF hs.onEvent
    THEN InvokeHandler(s, "onEvent", "awaitGeneric")
    ELSE DispatchSpecific(s, hs)

\* A handler failed: notify onError if registered (its own failure is not
\* caught), then propagate the handler's error.
DispatchFailed(s, e, hs, onErrorThrows) ==
  IF hs.onError
    THEN LET s1 == [s EXCEPT !.errorCalls = Append(@, [by |-> "dispatcher", err |-> e]),
                             !.errorThrows = Append(@, onErrorThrows),
                             !.trace = Append(@, "onError")]
         IN DispatchSettled(s1, Rejected(IF onErrorThrows THEN OnErrorFailure ELSE e))
    ELSE DispatchSettled(s, Rejected(e))

\* The generic handler's promise settled.
AfterGeneric(s, outcome, hs, onErrorThrows) ==
  IF outcome.ok
    THEN DispatchSpecific(Settled(s, "onEvent", outcome), hs)
    ELSE DispatchFailed(Settled(s, "onEvent", outcome), outcome.err, hs, onErrorThrows)

\* The type-specific handler's promise settled.
AfterSpecific(s, outcome, hs, onErrorThrows) ==
  IF outcome.ok
    THEN DispatchSettled(Settled(s, "on", outcome), Fulfilled)
    ELSE DispatchFailed(Settled(s, "on", outcome), outcome.err, hs, onErrorThrows)

(***************************************************************************)
(* The adapter: createVortexWebhookHandler                                 *)
(***************************************************************************)
\* Bug: a repeated header is not rejected and its first value is used.
ArityRejected_FirstValueWins(header) == FALSE

\* Array.isArray(signatureHeader)
ArityRejected(header) == header.kind = "array"

\* const signature = signatureHeader
SignatureOf(header) == IF header.values = << >> THEN "" ELSE header.values[1]

\* Bug: signature === undefined, which lets the empty string through.
SignatureMissing_UndefinedOnly(header) == header.kind = "absent"

\* !signature: undefined or the empty string
SignatureMissing(header) == header.kind = "absent" \/ SignatureOf(header) = ""

\* Bug: a parsed body is re-serialized when no raw payload is available.
ResolveRawBody_Reserialize(req) ==
  IF req.rawBody.kind \notin {"undefined", "null"}
    THEN [available |-> TRUE, payload |-> req.rawBody]
    ELSE IF req.body.kind = "string"
      THEN [available |-> TRUE, payload |-> req.body]
      ELSE IF req.body.kind = "object"
        THEN [available |-> TRUE, payload |-> Str(Stringify(req.body.obj))]
        ELSE [available |-> FALSE, payload |-> Undefined]

\* Bug: a string body is preferred to the captured rawBody.
ResolveRawBody_PreferBody(req) ==
  IF req.body.kind = "string"
    THEN [available |-> TRUE, payload |-> req.body]
    ELSE IF req.rawBody.kind \notin {"undefined", "null"}
      THEN [available |-> TRUE, payload |-> req.rawBody]
      ELSE [available |-> FALSE, payload |-> Undefined]

\* The raw payload: rawBody when it is neither null nor undefined, else a
\* string body, else unavailable.
ResolveRawBody(req) ==
  IF req.rawBody.kind \notin {"undefined", "null"}
    THEN [available |-> TRUE, payload |-> req.rawBody]
    ELSE IF req.body.kind = "string"
      THEN [available |-> TRUE, payload |-> req.body]
      ELSE [available |-> FALSE, payload |-> Undefined]

\* Bug: reply.status(code) without .send(body).
Respond_StatusOnly(s, code, body) ==
  [s EXCEPT !.statusCalls = Append(@, code),
            !.trace = Append(@, "status")]

\* reply.status(code).send(body)
Respond(s, code, body) ==
  [s EXCEPT !.statusCalls = Append(@, code),
            !.sendCalls = Append(@, body),
            !.trace = @ \o <<"status", "send">>]

\* The async function returns: its promise resolves.
Return(s) == [s EXCEPT !.pc = "done", !.promise = "resolved"]

\* An exception leaves the async function: its promise rejects.
Throw(s, e) == [s EXCEPT !.pc = "done", !.promise = "rejected", !.rejection = e]

\* (err as Error).name === 'VortexWebhookSignatureError'
IsSignatureError(err) == err.name = "VortexWebhookSignatureError"

\* Bug: every caught error is reported as 500.
CatchStatus_Always500(err) == 500

\* isSignatureError ? 401 : 500
CatchStatus(err) == IF IsSignatureError(err) THEN 401 ELSE 500

\* Bug: the message does not follow the status.
CatchMessage_AlwaysHandlerError(err) == MsgHandlerError

\* Bug: the caught error's own message is sent for a handler failure.
CatchMessage_LeakMessage(err) ==
  IF IsSignatureError(err) THEN MsgInvalidSignature ELSE <<err.message>>

\* isSignatureError ? 'Invalid signature' : 'Webhook handler error'
CatchMessage(err) == IF IsSignatureError(err) THEN MsgInvalidSignature ELSE MsgHandlerError

\* Bug: errors other than signature errors are rethrown.
CatchBlock_Rethrow(s, err, hs, onErrorThrows) ==
  IF ~IsSignatureError(err)
    THEN Throw(s, err)
    ELSE IF hs.onError
      THEN LET s1 == [s EXCEPT !.errorCalls = Append(@, [by |-> "adapter", err |-> err]),
                               !.errorThrows = Append(@, onErrorThrows),
                               !.trace = Append(@, "onError")]
           IN IF onErrorThrows
                THEN Throw(s1, OnErrorFailure)
                ELSE Return(Respond(s1, CatchStatus(err), ErrorBody(CatchMessage(err))))
      ELSE Return(Respond(s, CatchStatus(err), ErrorBody(CatchMessage(err))))

\* Bug: the onError call is wrapped in a try with an empty catch.
CatchBlock_SwallowOnError(s, err, hs, onErrorThrows) ==
  IF IsSignatureError(err) /\ hs.onError
    THEN LET s1 == [s EXCEPT !.errorCalls = Append(@, [by |-> "adapter", err |-> err]),
                             !.errorThrows = Append(@, onErrorThrows),
                             !.trace = Append(@, "onError")]
         IN Return(Respond(s1, CatchStatus(err), ErrorBody(CatchMessage(err))))
    ELSE Return(Respond(s, CatchStatus(err), ErrorBody(CatchMessage(err))))

\* The catch clause: notify onError of a signature error, then respond.
\* onError is called outside any try, so when it throws nothing is sent.
CatchBlock(s, err, hs, onErrorThrows) ==
  IF IsSignatureError(err) /\ hs.onError
    THEN LET s1 == [s EXCEPT !.errorCalls = Append(@, [by |-> "adapter", err |-> err]),
                             !.errorThrows = Append(@, onErrorThrows),
                             !.trace = Append(@, "onError")]
         IN IF onErrorThrows
              THEN Throw(s1, OnErrorFailure)
              ELSE Return(Respond(s1, CatchStatus(err), ErrorBody(CatchMessage(err))))
    ELSE Return(Respond(s, CatchStatus(err), ErrorBody(CatchMessage(err))))

\* Bug: the payload is parsed and dispatched whatever the verifier said.
TryBlock_DispatchUnverified(s, payload, signature, hs, onErrorThrows) ==
  LET r == ConstructEvent(payload, signature)
      s1 == [s EXCEPT !.constructCalls =
                        Append(@, [payload |-> payload, signature |-> signature,
                                   ok |-> r.ok, err |-> r.err]),
                      !.trace = Append(@, IF r.ok THEN "constructEvent.ok" ELSE "constructEvent.throw")]
  IN IF Parse(payload.text).ok
       THEN BeginDispatch([s1 EXCEPT !.event = Parse(payload.text).event], hs)
       ELSE CatchBlock(s1, r.err, hs, onErrorThrows)

\* Bug: handleEvent is never called; a verified event is acknowledged at once.
TryBlock_NoDispatch(s, payload, signature, hs, onErrorThrows) ==
  LET r == ConstructEvent(payload, signature)
      s1 == [s EXCEPT !.constructCalls =
                        Append(@, [payload |-> payload, signature |-> signature,
                                   ok |-> r.ok, err |-> r.err]),
                      !.trace = Append(@, IF r.ok THEN "constructEvent.ok" ELSE "constructEvent.throw")]
  IN IF r.ok
       THEN DispatchSettled([s1 EXCEPT !.event = r.event], Fulfilled)
       ELSE CatchBlock(s1, r.err, hs, onErrorThrows)

\* Bug: handleEvent is called without await and 200 is sent at once.
TryBlock_NoAwait(s, payload, signature, hs, onErrorThrows) ==
  LET r == ConstructEvent(payload, signature)
      s1 == [s EXCEPT !.constructCalls =
                        Append(@, [payload |-> payload, signature |-> signature,
                                   ok |-> r.ok, err |-> r.err]),
                      !.trace = Append(@, IF r.ok THEN "constructEvent.ok" ELSE "constructEvent.throw")]
  IN IF r.ok
       THEN Respond(BeginDispatch([s1 EXCEPT !.event = r.event], hs), 200, ReceivedBody)
       ELSE CatchBlock(s1, r.err, hs, onErrorThrows)

\* The try clause up to its await: constructEvent, then handleEvent.
TryBlock(s, payload, signature, hs, onErrorThrows) ==
  LET r == ConstructEvent(payload, signature)
      s1 == [s EXCEPT !.constructCalls =
                        Append(@, [payload |-> payload, signature |-> signature,
                                   ok |-> r.ok, err |-> r.err]),
                      !.trace = Append(@, IF r.ok THEN "constructEvent.ok" ELSE "constructEvent.throw")]
  IN IF r.ok
       THEN BeginDispatch([s1 EXCEPT !.event = r.event], hs)
       ELSE CatchBlock(s1, r.err, hs, onErrorThrows)

\* Bug: the raw payload is resolved before the header is looked at.
HandleRequest_RawBodyFirst(s, hs, onErrorThrows) ==
  LET raw == ResolveRawBody(s.req)
  IN IF ~raw.available
       THEN Return(Respond(s, 500, ErrorBody(MsgRawBody)))
       ELSE IF ArityRejected(s.req.header)
         THEN Return(Respond(s, 400, ErrorBody(MsgMultiple)))
         ELSE IF SignatureMissing(s.req.header)
           THEN Return(Respond(s, 401, ErrorBody(MsgMissing)))
           ELSE TryBlock(s, raw.payload, SignatureOf(s.req.header), hs, onErrorThrows)

\* The handler from its entry to its first await (or to its return).
HandleRequest(s, hs, onErrorThrows) ==
  IF ArityRejected(s.req.header)
    THEN Return(Respond(s, 400, ErrorBody(MsgMultiple)))
    ELSE IF SignatureMissing(s.req.header)
      THEN Return(Respond(s, 401, ErrorBody(MsgMissing)))
      ELSE LET raw == ResolveRawBody(s.req)
           IN IF ~raw.available
                THEN Return(Respond(s, 500, ErrorBody(MsgRawBody)))
                ELSE TryBlock(s, raw.payload, SignatureOf(s.req.header), hs, onErrorThrows)

\* Bug: an event that no handler took is reported as a failure.
ResumeHandler_RequireHandled(s, hs, onErrorThrows) ==
  IF s.dispatch.ok /\ s.handlerCalls # << >>
    THEN Return(Respond(s, 200, ReceivedBody))
    ELSE IF s.dispatch.ok
      THEN Return(Respond(s, 500, ErrorBody(MsgHandlerError)))
      ELSE CatchBlock(s, s.dispatch.err, hs, onErrorThrows)

\* Bug: the dispatch result is kept in a variable of the enclosing closure,
\* which every invocation of the handler shares.
ResumeHandler_SharedResult(s, hs, onErrorThrows) ==
  LET failing == {e \in Deliveries : inv[e].pc = "awaitDispatch" /\ ~inv[e].dispatch.ok}
  IN IF failing = {}
       THEN Return(Respond(s, 200, ReceivedBody))
       ELSE CatchBlock(s, inv[CHOOSE e \in failing : TRUE].dispatch.err, hs, onErrorThrows)

\* The handler after `await webhooks.handleEvent(event, handlers)`.
ResumeHandler(s, hs, onErrorThrows) ==
  IF s.dispatch.ok
    THEN Return(Respond(s, 200, ReceivedBody))
    ELSE CatchBlock(s, s.dispatch.err, hs, onErrorThrows)

(***************************************************************************)
(* The configuration singleton (src/config.ts)                             *)
(***************************************************************************)
\* How many promises configureVortexAsync is handed in one run; the lazy
\* factory makes one more.
MaxAsyncPromises == 1

\* The configs a caller may hand in: one without a key and two that differ in
\* both key and hooks. apiKey '' stands for every falsy key; hooks names the
\* hook functions the config carries (authenticateUser and the canX hooks),
\* compared by identity.
Configs ==
  { [apiKey |-> "", hooks |-> "hooksA"],
    [apiKey |-> "key1", hooks |-> "hooksA"],
    [apiKey |-> "key2", hooks |-> "hooksB"] }

\* null, for configTemplate.
NoConfig == [apiKey |-> "", hooks |-> "null"]

\* null, for lazyConfigFactory; and the factories a caller may register.
NoFactory == "null"
Factories == {"factoryA", "factoryB"}

\* process.env.VORTEX_API_KEY; '' stands for unset.
EnvApiKeys == {"", "envkey"}

LockedError ==
  [name |-> "Error",
   message |-> "Vortex configuration is already locked. Configuration can only be set once for security reasons."]
ApiKeyRequiredError ==
  [name |-> "Error",
   message |-> "API key is required in config or VORTEX_API_KEY environment variable"]
NotConfiguredError ==
  [name |-> "Error",
   message |-> "Vortex not configured. Call configureVortex() or set VORTEX_API_KEY environment variable"]
\* What the promise handed to configureVortexAsync, or made by the factory,
\* rejects with.
SourceError == [name |-> "Error", message |-> "secret store unavailable"]

\* How the promise handed to configureVortexAsync, or made by the factory,
\* settles.
Sources ==
  {[ok |-> TRUE, config |-> c, err |-> NoError] : c \in Configs}
    \cup {[ok |-> FALSE, config |-> NoConfig, err |-> SourceError]}

\* The four module-level variables, as one value.
ModuleState ==
  [configTemplate |-> configTemplate,
   isConfigLocked |-> isConfigLocked,
   configPromise |-> configPromise,
   lazyConfigFactory |-> lazyConfigFactory]

\* The module-level variables when the module has been loaded.
Loaded ==
  [configTemplate |-> NoConfig,
   isConfigLocked |-> FALSE,
   configPromise |-> 0,
   lazyConfigFactory |-> NoFactory]

\* `isConfigLocked && configTemplate`
Locked(m) == m.isConfigLocked /\ m.configTemplate # NoConfig

ConfigureVortex_Unlocked(m, config, env) ==
  IF config.apiKey = "" /\ env = ""
    THEN [m |-> m, threw |-> ApiKeyRequiredError]
    ELSE [m |-> [m EXCEPT !.configTemplate = config, !.isConfigLocked = TRUE],
          threw |-> NoError]

\* configureVortex(config): the module state it leaves and what it threw.
ConfigureVortex(m, config, env) ==
  IF Locked(m)
    THEN [m |-> m, threw |-> LockedError]
    ELSE IF config.apiKey = "" /\ env = ""
      THEN [m |-> m, threw |-> ApiKeyRequiredError]
      ELSE [m |-> [m EXCEPT !.configTemplate = config, !.isConfigLocked = TRUE],
            threw |-> NoError]

\* configureVortexLazy(configFactory)
ConfigureVortexLazy(m, factory) ==
  IF Locked(m)
    THEN [m |-> m, threw |-> LockedError]
    ELSE [m |-> [m EXCEPT !.lazyConfigFactory = factory], threw |-> NoError]

\* A promise made by `.then(config => { configureVortex(config); })`.
Pending(by) == [state |-> "pending", by |-> by, config |-> NoConfig, err |-> NoError]

\* Bug: a failed configuration clears configPromise so that it is retried.
ThenConfigure_ClearOnFailure(m, p, source, env) ==
  IF source.ok /\ ConfigureVortex(m, source.config, env).threw = NoError
    THEN [m |-> ConfigureVortex(m, source.config, env).m,
          called |-> TRUE,
          threw |-> NoError,
          promise |-> [p EXCEPT !.state = "fulfilled", !.config = source.config]]
    ELSE [m |-> [m EXCEPT !.configPromise = 0],
          called |-> source.ok,
          threw |-> IF source.ok THEN ConfigureVortex(m, source.config, env).threw ELSE NoError,
          promise |-> [p EXCEPT !.state = "rejected",
                                !.config = source.config,
                                !.err = IF source.ok
                                          THEN ConfigureVortex(m, source.config, env).threw
                                          ELSE source.err]]

\* The then-callback when its source promise has settled with `source`: the
\* module state it leaves, how the derived promise settles, and what the
\* configureVortex call in it threw.
ThenConfigure(m, p, source, env) ==
  IF source.ok
    THEN LET r == ConfigureVortex(m, source.config, env) IN
         [m |-> r.m,
          called |-> TRUE,
          threw |-> r.threw,
          promise |-> [p EXCEPT !.state = IF r.threw = NoError THEN "fulfilled" ELSE "rejected",
                                !.config = source.config,
                                !.err = r.threw]]
    ELSE [m |-> m,
          called |-> FALSE,
          threw |-> NoError,
          promise |-> [p EXCEPT !.state = "rejected", !.err = source.err]]

LazyInitDue_IgnorePromise(m) ==
  m.lazyConfigFactory # NoFactory /\ m.configTemplate = NoConfig

\* getVortexConfig, lines 92-97: whether the lazy factory is invoked now.
LazyInitDue(m) ==
  m.lazyConfigFactory # NoFactory /\ m.configTemplate = NoConfig /\ m.configPromise = 0

\* getVortexConfig, line 100: whether the call awaits configPromise.
MustAwait(m) == m.configPromise # 0 /\ m.configTemplate = NoConfig

\* getVortexConfig, lines 105-129: the fresh config it returns, or its throw.
BuildConfig(m, env) ==
  LET apiKey == IF m.configTemplate # NoConfig /\ m.configTemplate.apiKey # ""
                  THEN m.configTemplate.apiKey
                  ELSE env
  IN IF apiKey = ""
       THEN [ok |-> FALSE, config |-> NoConfig, err |-> NotConfiguredError]
       ELSE IF m.configTemplate # NoConfig
         THEN [ok |-> TRUE,
               config |-> [apiKey |-> apiKey, hooks |-> m.configTemplate.hooks],
               err |-> NoError]
         ELSE [ok |-> TRUE,
               config |-> [apiKey |-> apiKey, hooks |-> "undefined"],
               err |-> NoError]

\* The callers of getVortexConfig, and a caller that has not called.
Callers == {"g1", "g2"}
NotCalled ==
  [pc |-> "idle", awaits |-> 0, pending |-> FALSE, ok |-> FALSE, config |-> NoConfig,
   err |-> NoError]

\* No configure* call yet.
NoCall == [op |-> "none", via |-> "none", lockedBefore |-> FALSE, threw |-> NoError]

\* The four module-level variables have the values of m.
ModuleIs(m) ==
  /\ configTemplate = m.configTemplate
  /\ isConfigLocked = m.isConfigLocked
  /\ configPromise = m.configPromise
  /\ lazyConfigFactory = m.lazyConfigFactory

\* The state when src/config.ts has been loaded.
ConfigLoaded ==
  /\ ModuleIs(Loaded)
  /\ promises = <<>>
  /\ getCalls = [g \in Callers |-> NotCalled]
  /\ factoryCalls = 0
  /\ lastCall = NoCall
  /\ firstConfig = NoConfig

(***************************************************************************)
(* Strings and src/utils.ts                                                *)
(***************************************************************************)
\* `.substring(0, 1000)`
MaxSanitizedLength == 1000

\* A JavaScript value that reaches sanitizeInput: null, undefined, a number
\* or a string. A string is a sequence of runs, each a text and the count of
\* its characters; a run of blanks has the text " " and a run of characters
\* that sanitizeInput removes has the text "<".
JsNull == [kind |-> "null", runs |-> << >>]
JsUndefined == [kind |-> "undefined", runs |-> << >>]
JsNumber == [kind |-> "number", runs |-> << >>]
JsString(runs) == [kind |-> "string", runs |-> runs]
Run(text, n) == [text |-> text, n |-> n]

RECURSIVE Length(_)
\* The number of characters of a sequence of runs.
Length(runs) == IF runs = << >> THEN 0 ELSE Head(runs).n + Length(Tail(runs))

\* `!input`: null, undefined and '' are falsy (the number is not 0).
Falsy(v) == v.kind \in {"null", "undefined"} \/ (v.kind = "string" /\ Length(v.runs) = 0)

RECURSIVE TrimStart(_)
TrimStart(runs) ==
  IF runs # << >> /\ Head(runs).text = " " THEN TrimStart(Tail(runs)) ELSE runs

RECURSIVE TrimEnd(_)
TrimEnd(runs) ==
  IF runs # << >> /\ runs[Len(runs)].text = " "
    THEN TrimEnd(SubSeq(runs, 1, Len(runs) - 1))
    ELSE runs

\* `.trim()`
Trim(runs) == TrimEnd(TrimStart(runs))

IsXss(r) == r.text = "<"

\* `.replace(/[<>'"]/g, '')`
RemoveXss(runs) == SelectSeq(runs, LAMBDA r : ~IsXss(r))

RECURSIVE Substring(_, _)
\* `.substring(0, n)`
Substring(runs, n) ==
  IF runs = << >> \/ n = 0
    THEN << >>
    ELSE IF Head(runs).n <= n
      THEN <<Head(runs)>> \o Substring(Tail(runs), n - Head(runs).n)
      ELSE <<Run(Head(runs).text, n)>>

\* sanitizeInput(input): the value it returns, or that it threw the TypeError
\* of calling .trim on a value that is no string.
SanitizeInput(input) ==
  IF Falsy(input)
    THEN [threw |-> FALSE, value |-> JsNull]
    ELSE IF input.kind # "string"
      THEN [threw |-> TRUE, value |-> JsNull]
      ELSE [threw |-> FALSE,
            value |-> JsString(Substring(RemoveXss(Trim(input.runs)), MaxSanitizedLength))]

\* The strings of the requests.
Word(text, n) == JsString(<<Run(text, n)>>)
Plain == Word("inv_1", 5)
Other == Word("inv_2", 5)
Padded == JsString(<<Run(" ", 2), Run("inv_1", 5), Run(" ", 1)>>)
Tagged == JsString(<<Run("<", 1), Run("inv_1", 5), Run("<", 1)>>)
OnlyTags == JsString(<<Run("<", 2)>>)
Blank == JsString(<<Run(" ", 3)>>)
Long == Word("x", MaxSanitizedLength + 1)
TaggedLong == JsString(<<Run("<", 1), Run("x", MaxSanitizedLength)>>)
EmptyString == JsString(<< >>)

Strings == {Plain, Other, Padded, Tagged, OnlyTags, Blank, Long, TaggedLong, EmptyString}

(***************************************************************************)
(* Requests to the route handlers                                          *)
(***************************************************************************)
InvitationHandlers ==
  {"handleGetInvitationsByTarget", "handleGetInvitation", "handleRevokeInvitation",
   "handleAcceptInvitations", "handleGetInvitationsByGroup",
   "handleDeleteInvitationsByGroup", "handleReinvite"}

\* handleJwtGeneration as in src/handlers/jwt.ts, and as in the copy that also
\* checks the user's format.
JwtHandlers == {"handleJwtGeneration", "handleJwtGenerationChecked"}

RouteHandlers == InvitationHandlers \cup JwtHandlers

\* The handlers that read one route parameter, invitationId.
ByIdHandlers == {"handleGetInvitation", "handleRevokeInvitation", "handleReinvite"}

\* The handlers that read the route parameters groupType and groupId.
ByGroupHandlers == {"handleGetInvitationsByGroup", "handleDeleteInvitationsByGroup"}

Methods == {"GET", "POST", "DELETE"}

\* The method each handler requires.
AllowedMethod(h) ==
  CASE h \in {"handleGetInvitationsByTarget", "handleGetInvitation",
              "handleGetInvitationsByGroup"} -> "GET"
    [] h \in {"handleRevokeInvitation", "handleDeleteInvitationsByGroup"} -> "DELETE"
    [] OTHER -> "POST"

\* The access hook each invitation handler consults.
AccessHook(h) ==
  CASE h = "handleGetInvitationsByTarget" -> "canAccessInvitationsByTarget"
    [] h = "handleGetInvitation" -> "canAccessInvitation"
    [] h = "handleRevokeInvitation" -> "canDeleteInvitation"
    [] h = "handleAcceptInvitations" -> "canAcceptInvitations"
    [] h = "handleGetInvitationsByGroup" -> "canAccessInvitationsByGroup"
    [] h = "handleDeleteInvitationsByGroup" -> "canDeleteInvitationsByGroup"
    [] h = "handleReinvite" -> "canReinvite"
    [] OTHER -> "none"

\* The method of the Vortex client each handler calls.
RemoteMethod(h) ==
  CASE h = "handleGetInvitationsByTarget" -> "getInvitationsByTarget"
    [] h = "handleGetInvitation" -> "getInvitation"
    [] h = "handleRevokeInvitation" -> "revokeInvitation"
    [] h = "handleAcceptInvitations" -> "acceptInvitations"
    [] h = "handleGetInvitationsByGroup" -> "getInvitationsByGroup"
    [] h = "handleDeleteInvitationsByGroup" -> "deleteInvitationsByGroup"
    [] h = "handleReinvite" -> "reinvite"
    [] OTHER -> "generateJwt"

AccessHooks == {AccessHook(h) : h \in InvitationHandlers}

\* The hook functions of a config, by the name of its set of hooks.
HooksOf(hooks) ==
  CASE hooks = "hooksA" -> {"authenticateUser"}
    [] hooks = "hooksB" -> {"authenticateUser"} \cup AccessHooks
    [] hooks = "hooksReadOnly" ->
         {"authenticateUser", "canAccessInvitationsByTarget", "canAccessInvitation",
          "canAccessInvitationsByGroup"}
    [] hooks = "hooksAccessOnly" -> AccessHooks
    [] OTHER -> {}

\* The configs an application serves requests with.
ApiConfigs ==
  {[apiKey |-> "key1", hooks |-> h] :
     h \in {"hooksA", "hooksB", "hooksReadOnly", "hooksAccessOnly", "hooksNone"}}

\* Type names of a target, and one that is none.
TypeEmail == Word("email", 5)
TypePhone == Word("phone", 5)
TypeUsername == Word("username", 8)
TypePhoneNumber == Word("phoneNumber", 11)
TypeTaggedEmail == JsString(<<Run("<", 1), Run("email", 5)>>)
TypeBogus == Word("fax", 3)

\* body.invitationIds: an array of values, or a value that is no array.
NotArray == [isArray |-> FALSE, items |-> << >>]
Array(items) == [isArray |-> TRUE, items |-> items]
IdLists ==
  {NotArray, Array(<< >>), Array(<<Plain>>), Array(<<Plain, Other>>), Array(<<Tagged>>),
   Array(<<Plain, OnlyTags>>), Array(<<JsNumber>>), Array(<<Long>>)}

\* body.target: undefined or {type, value}.
NoTarget == [present |-> FALSE, type |-> JsUndefined, value |-> JsUndefined]
Target(type, value) == [present |-> TRUE, type |-> type, value |-> value]
Targets ==
  {NoTarget, Target(TypeEmail, Plain), Target(TypeEmail, Tagged),
   Target(TypeEmail, OnlyTags), Target(TypePhone, TaggedLong), Target(TypeBogus, Plain),
   Target(TypeEmail, JsUndefined), Target(JsUndefined, Plain)}

\* body.user: undefined or {email, phone, name}.
NoUser ==
  [present |-> FALSE, email |-> JsUndefined, phone |-> JsUndefined, name |-> JsUndefined]
User(email, phone, name) ==
  [present |-> TRUE, email |-> email, phone |-> phone, name |-> name]
Users ==
  {NoUser, User(JsUndefined, JsUndefined, JsUndefined),
   User(Plain, JsUndefined, JsUndefined), User(Tagged, JsUndefined, Long),
   User(JsUndefined, Padded, JsUndefined), User(JsNumber, JsUndefined, JsUndefined),
   User(OnlyTags, Other, Blank)}

\* request.body of handleAcceptInvitations: falsy, or an object.
NoBody == [present |-> FALSE, invitationIds |-> NotArray, target |-> NoTarget, user |-> NoUser]
AcceptBodies ==
  {NoBody} \cup [present : {TRUE}, invitationIds : IdLists, target : Targets, user : Users]

\* A request: the handler it is routed to, its method, the two parameters the
\* handler reads from the route or the query (null when absent or no string)
\* and its body.
ApiRequest(h, method, p1, p2, body) ==
  [handler |-> h, method |-> method, p1 |-> p1, p2 |-> p2, body |-> body]

ApiRequests ==
  {ApiRequest(h, m, p, JsNull, NoBody) :
     h \in ByIdHandlers, m \in Methods, p \in {JsNull, Plain, Padded, OnlyTags, Long}}
  \cup {ApiRequest(h, m, p.type, p.id, NoBody) :
          h \in ByGroupHandlers, m \in Methods,
          p \in [type : {JsNull, Plain, OnlyTags}, id : {JsNull, Other, Tagged}]}
  \cup {ApiRequest("handleGetInvitationsByTarget", m, p.type, p.value, NoBody) :
          m \in Methods,
          p \in [type : {JsNull, TypeEmail, TypeUsername, TypePhoneNumber, TypePhone,
                         TypeTaggedEmail, TypeBogus},
                 value : {JsNull, Plain, Tagged, OnlyTags}]}
  \cup {ApiRequest("handleAcceptInvitations", m, JsNull, JsNull, b) :
          m \in {"POST", "GET"}, b \in AcceptBodies}
  \cup {ApiRequest(h, m, JsNull, JsNull, NoBody) : h \in JwtHandlers, m \in Methods}

NoApiRequest == ApiRequest("none", "GET", JsNull, JsNull, NoBody)

\* What authenticateUser resolves with: a user, a user without an email
\* address, or null.
ValidUser == [isNull |-> FALSE, userId |-> "user-1", userEmail |-> "user-1@example.com"]
UserWithoutEmail == [isNull |-> FALSE, userId |-> "user-1", userEmail |-> ""]
NullUser == [isNull |-> TRUE, userId |-> "", userEmail |-> ""]

\* What the hooks and the Vortex client throw or reject with.
AuthError == [name |-> "Error", message |-> "session store: token abc123 expired"]
HookError == [name |-> "Error", message |-> "acl db password=hunter2"]
RemoteError == [name |-> "Error", message |-> "Vortex API 502 for key1"]
BodyError == [name |-> "Error", message |-> "Request body is empty or not parsed"]
TypeError == [name |-> "TypeError", message |-> "input.trim is not a function"]

\* How a call of authenticateUser settles.
AuthOutcomes ==
  {[threw |-> FALSE, user |-> u, err |-> NoError] : u \in {ValidUser, UserWithoutEmail, NullUser}}
    \cup {[threw |-> TRUE, user |-> NullUser, err |-> AuthError]}

\* How a call of an access hook settles.
AccessOutcomes ==
  {[threw |-> FALSE, allowed |-> a, err |-> NoError] : a \in BOOLEAN}
    \cup {[threw |-> TRUE, allowed |-> FALSE, err |-> HookError]}

\* How a call of the Vortex client settles.
RemoteOutcomes ==
  {[threw |-> FALSE, err |-> NoError], [threw |-> TRUE, err |-> RemoteError]}

\* Messages of the responses.
MsgMethodNotAllowed == <<"Method not allowed">>
MsgAccessDenied == <<"Access denied">>
MsgAccessDeniedNoHook ==
  <<"Access denied. Configure access control hooks for invitation endpoints.">>
MsgTargetRequired == <<"targetType and targetValue query parameters are required">>
MsgTargetType == <<"targetType must be email, username, or phoneNumber">>
MsgInvalidId == <<"Invalid invitation ID">>
MsgInvalidGroup == <<"Invalid group parameters">>
MsgIdsNotArray == <<"invitationIds must be a non-empty array">>
MsgInvalidIds == <<"Invalid invitation IDs provided">>
MsgUserOrTarget == <<"Either user or target must be provided">>
MsgUserContact == <<"user must have either email or phone">>
MsgTargetFields == <<"target must have type and value properties">>
MsgTargetTypeLegacy == <<"target.type must be email, username, phoneNumber, or phone">>
MsgProcessingError == <<"An error occurred while processing your request">>
MsgJwtNeedsAuth ==
  <<"JWT generation requires authentication configuration. Please configure authenticateUser hook.">>
MsgUnauthorized == <<"Unauthorized">>
MsgInvalidUserFormat == <<"Invalid user format: must provide userId and userEmail">>

\* { error: message }
ApiError(m) == [kind |-> "error", error |-> m]
\* The data of a successful response.
ApiData == [kind |-> "data", error |-> << >>]

(***************************************************************************)
(* The route handlers (src/handlers/invitations.ts, src/handlers/jwt.ts)   *)
(***************************************************************************)
\* The second argument of vortex.acceptInvitations.
NoData ==
  [shape |-> "none", email |-> JsUndefined, phone |-> JsUndefined, name |-> JsUndefined,
   type |-> JsUndefined, value |-> JsUndefined]
UserData(email, phone, name) ==
  [NoData EXCEPT !.shape = "user", !.email = email, !.phone = phone, !.name = name]
TargetData(type, value) ==
  [NoData EXCEPT !.shape = "target", !.type = type, !.value = value]

\* One invocation of a route handler that has not begun.
ApiIdle ==
  [ pc |-> "idle",
    req |-> NoApiRequest,
    config |-> NoConfig,
    user |-> NullUser,
    ids |-> << >>,
    data |-> NoData,
    authCalls |-> << >>,
    authResults |-> << >>,
    hookCalls |-> << >>,
    hookResults |-> << >>,
    remoteCalls |-> << >>,
    remoteResults |-> << >>,
    caught |-> << >>,
    statusCalls |-> << >>,
    sendCalls |-> << >>,
    promise |-> "none" ]

\* `return reply.status(status).send(body)`: createApiResponse and
\* createErrorResponse, returned by the handler.
ApiRespond(s, status, body) ==
  [s EXCEPT !.pc = "done",
            !.statusCalls = Append(@, status),
            !.sendCalls = Append(@, body),
            !.promise = "resolved"]

IsJwt(s) == s.req.handler \in JwtHandlers

ApiCatch_LeakMessage(s, err) ==
  ApiRespond([s EXCEPT !.caught = Append(@, err)], 500, ApiError(<<err.message>>))

\* The catch clause of a handler: the invitation handlers answer with a fixed
\* message, handleJwtGeneration with the error's message.
ApiCatch(s, err) ==
  IF IsJwt(s)
    THEN ApiRespond([s EXCEPT !.caught = Append(@, err)], 500, ApiError(<<err.message>>))
    ELSE ApiRespond([s EXCEPT !.caught = Append(@, err)], 500, ApiError(MsgProcessingError))

\* The handler suspends at an await.
Await(s, pc) == [s EXCEPT !.pc = pc]

\* invitationIds.map(id => sanitizeInput(id)): the values, and whether a call
\* threw.
SanitizeAll(items) ==
  [threw |-> \E i \in 1..Len(items) : SanitizeInput(items[i]).threw,
   values |-> [i \in 1..Len(items) |-> SanitizeInput(items[i]).value]]

\* `x ? sanitizeInput(x) : undefined`
SanitizeOptional(x) ==
  IF Falsy(x) THEN [threw |-> FALSE, value |-> JsUndefined] ELSE SanitizeInput(x)

\* `sanitizeInput(x) || x`
SanitizeOrKeep(x) ==
  IF SanitizeInput(x).threw \/ ~Falsy(SanitizeInput(x).value)
    THEN SanitizeInput(x)
    ELSE [threw |-> FALSE, value |-> x]

LegacyTypes == {TypeEmail, TypeUsername, TypePhoneNumber, TypePhone}
TargetTypes == {TypeEmail, TypeUsername, TypePhoneNumber}

\* A step of validation ends the handler with a response, throws, or passes.
Refuse(status, m) ==
  [end |-> "respond", status |-> status, message |-> m, err |-> NoError,
   ids |-> << >>, data |-> NoData]
Raise(err) ==
  [end |-> "throw", status |-> 0, message |-> << >>, err |-> err, ids |-> << >>,
   data |-> NoData]
Pass(ids, data) ==
  [end |-> "pass", status |-> 0, message |-> << >>, err |-> NoError, ids |-> ids,
   data |-> data]

\* handleAcceptInvitations, lines 142-152: acceptData of the new format.
AcceptUser(ids, user) ==
  IF Falsy(user.email) /\ Falsy(user.phone)
    THEN Refuse(400, MsgUserContact)
    ELSE IF \/ SanitizeOptional(user.email).threw
            \/ SanitizeOptional(user.phone).threw
            \/ SanitizeOptional(user.name).threw
      THEN Raise(TypeError)
      ELSE Pass(ids, UserData(SanitizeOptional(user.email).value,
                              SanitizeOptional(user.phone).value,
                              SanitizeOptional(user.name).value))

\* handleAcceptInvitations, lines 153-169: acceptData of the legacy format.
AcceptTarget(ids, target) ==
  IF Falsy(target.type) \/ Falsy(target.value)
    THEN Refuse(400, MsgTargetFields)
    ELSE IF target.type \notin LegacyTypes
      THEN Refuse(400, MsgTargetTypeLegacy)
      ELSE IF SanitizeOrKeep(target.value).threw
        THEN Raise(TypeError)
        ELSE Pass(ids, TargetData(target.type, SanitizeOrKeep(target.value).value))

\* handleAcceptInvitations, lines 121-169: the body is read and validated.
ParseAccept(body) ==
  IF ~body.present
    THEN Raise(BodyError)
    ELSE IF ~body.invitationIds.isArray \/ Len(body.invitationIds.items) = 0
      THEN Refuse(400, MsgIdsNotArray)
      ELSE LET sanitized == SanitizeAll(body.invitationIds.items)
               sanitizedIds == SelectSeq(sanitized.values, LAMBDA v : ~Falsy(v))
           IN IF sanitized.threw
                THEN Raise(TypeError)
                ELSE IF Len(sanitizedIds) # Len(body.invitationIds.items)
                  THEN Refuse(400, MsgInvalidIds)
                  ELSE IF ~body.user.present /\ ~body.target.present
                    THEN Refuse(400, MsgUserOrTarget)
                    ELSE IF body.user.present
                      THEN AcceptUser(sanitizedIds, body.user)
                      ELSE AcceptTarget(sanitizedIds, body.target)

\* The handlers that read invitationId: lines 53-57, 88-92, 281-285.
ParseId(req) ==
  IF Falsy(SanitizeInput(req.p1).value)
    THEN Refuse(400, MsgInvalidId)
    ELSE Pass(<<SanitizeInput(req.p1).value>>, NoData)

\* The handlers that read groupType and groupId: lines 203-210, 242-249.
ParseGroup(req) ==
  IF Falsy(SanitizeInput(req.p1).value) \/ Falsy(SanitizeInput(req.p2).value)
    THEN Refuse(400, MsgInvalidGroup)
    ELSE Pass(<<SanitizeInput(req.p1).value, SanitizeInput(req.p2).value>>, NoData)

\* handleGetInvitationsByTarget, lines 27-36, after the access check.
ParseTargetQuery(req) ==
  IF Falsy(SanitizeInput(req.p1).value) \/ Falsy(SanitizeInput(req.p2).value)
    THEN Refuse(400, MsgTargetRequired)
    ELSE IF SanitizeInput(req.p1).value \notin TargetTypes
      THEN Refuse(400, MsgTargetType)
      ELSE Pass(<<SanitizeInput(req.p1).value, SanitizeInput(req.p2).value>>, NoData)

\* What a handler validates before it resolves the configuration.
ParseBeforeConfig(req) ==
  CASE req.handler \in ByIdHandlers -> ParseId(req)
    [] req.handler \in ByGroupHandlers -> ParseGroup(req)
    [] req.handler = "handleAcceptInvitations" -> ParseAccept(req.body)
    [] OTHER -> Pass(<< >>, NoData)

\* The end of a validation step, applied to the invocation: `next` is where
\* the handler continues when the step passed.
Validated(s, v, next) ==
  CASE v.end = "respond" -> ApiRespond(s, v.status, ApiError(v.message))
    [] v.end = "throw" -> ApiCatch(s, v.err)
    [] OTHER -> Await([s EXCEPT !.ids = v.ids, !.data = v.data], next)

\* A handler from its entry to `await getVortexConfig()`.
EnterHandler(s, req) ==
  LET s1 == [s EXCEPT !.req = req, !.promise = "pending"] IN
  IF req.method # AllowedMethod(req.handler)
    THEN ApiRespond(s1, 405, ApiError(MsgMethodNotAllowed))
    ELSE Validated(s1, ParseBeforeConfig(req), "awaitConfig")

\* getVortexConfig() when no configuration is pending: it rejects with the
\* rejection of configPromise, or runs lines 105-129.
GetVortexConfigSettled(m, ps, env) ==
  IF MustAwait(m) /\ ps[m.configPromise].state = "rejected"
    THEN [ok |-> FALSE, config |-> NoConfig, err |-> ps[m.configPromise].err]
    ELSE BuildConfig(m, env)

\* `new Vortex(config.apiKey)` and the call of its method.
CallRemote(s) ==
  Await([s EXCEPT !.remoteCalls =
                     Append(@, [method |-> RemoteMethod(s.req.handler),
                                apiKey |-> s.config.apiKey,
                                ids |-> s.ids,
                                data |-> s.data])],
        "awaitRemote")

\* An invitation handler after its access check has passed.
Proceed(s) ==
  IF s.req.handler = "handleGetInvitationsByTarget"
    THEN LET v == ParseTargetQuery(s.req) IN
         IF v.end = "pass"
           THEN CallRemote([s EXCEPT !.ids = v.ids])
           ELSE Validated(s, v, "awaitRemote")
    ELSE CallRemote(s)

AccessCheck_AnonymousAllowed(s) ==
  IF AccessHook(s.req.handler) \in HooksOf(s.config.hooks)
    THEN Await([s EXCEPT !.hookCalls = Append(@, AccessHook(s.req.handler))], "awaitHook")
    ELSE Proceed(s)

\* `if (config.canX) { hasAccess = await config.canX(...) } else if (!user) 403`
AccessCheck(s) ==
  IF AccessHook(s.req.handler) \in HooksOf(s.config.hooks)
    THEN Await([s EXCEPT !.hookCalls = Append(@, AccessHook(s.req.handler))], "awaitHook")
    ELSE IF s.user.isNull
      THEN ApiRespond(s, 403, ApiError(MsgAccessDeniedNoHook))
      ELSE Proceed(s)

\* The handler after `await getVortexConfig()`, up to its next await.
AfterConfig(s, r) ==
  IF ~r.ok
    THEN ApiCatch(s, r.err)
    ELSE LET s1 == [s EXCEPT !.config = r.config] IN
         IF IsJwt(s)
           THEN IF "authenticateUser" \notin HooksOf(r.config.hooks)
                  THEN ApiRespond(s1, 500, ApiError(MsgJwtNeedsAuth))
                  ELSE Await([s1 EXCEPT !.authCalls = Append(@, "handler")],
                             "awaitAuthenticateUser")
           ELSE Await(s1, "awaitAuthConfig")

\* authenticateRequest after its `await getVortexConfig()` (config.ts, lines
\* 134-141): a failure here is outside its try and reaches the handler.
AfterAuthConfig(s, r) ==
  IF ~r.ok
    THEN ApiCatch(s, r.err)
    ELSE IF "authenticateUser" \notin HooksOf(r.config.hooks)
      THEN AccessCheck([s EXCEPT !.user = NullUser])
      ELSE Await([s EXCEPT !.authCalls = Append(@, "authenticateRequest")],
                 "awaitAuthenticateUser")

AuthenticateRequest_Propagate(s, outcome) ==
  IF outcome.threw
    THEN ApiCatch(s, outcome.err)
    ELSE AccessCheck([s EXCEPT !.user = outcome.user])

\* authenticateRequest after `await config.authenticateUser(...)` (config.ts,
\* lines 140-146), and the handler's access check that follows.
AuthenticateRequest(s, outcome) ==
  IF outcome.threw
    THEN AccessCheck([s EXCEPT !.caught = Append(@, outcome.err), !.user = NullUser])
    ELSE AccessCheck([s EXCEPT !.user = outcome.user])

\* `vortex.generateJwt(...)` and the response with the token.
GenerateJwt(s, jwt) ==
  LET s1 == [s EXCEPT !.remoteCalls =
                         Append(@, [method |-> "generateJwt",
                                    apiKey |-> s.config.apiKey,
                                    ids |-> << >>,
                                    data |-> NoData])]
  IN IF jwt.threw THEN ApiCatch(s1, jwt.err) ELSE ApiRespond(s1, 200, ApiData)

JwtAfterAuth_NoUserCheck(s, outcome, jwt) ==
  IF outcome.threw
    THEN ApiCatch(s, outcome.err)
    ELSE GenerateJwt([s EXCEPT !.user = outcome.user], jwt)

\* handleJwtGeneration after `await config.authenticateUser(request, reply)`.
JwtAfterAuth(s, outcome, jwt) ==
  IF outcome.threw
    THEN ApiCatch(s, outcome.err)
    ELSE LET s1 == [s EXCEPT !.user = outcome.user] IN
         IF outcome.user.isNull
           THEN ApiRespond(s1, 401, ApiError(MsgUnauthorized))
           ELSE IF /\ s.req.handler = "handleJwtGenerationChecked"
                   /\ (outcome.user.userId = "" \/ outcome.user.userEmail = "")
             THEN ApiRespond(s1, 500, ApiError(MsgInvalidUserFormat))
             ELSE GenerateJwt(s1, jwt)

\* An invitation handler after `await config.canX(...)`.
AfterHook(s, outcome) ==
  IF outcome.threw
    THEN ApiCatch(s, outcome.err)
    ELSE IF ~outcome.allowed
      THEN ApiRespond(s, 403, ApiError(MsgAccessDenied))
      ELSE Proceed(s)

\* An invitation handler after the await of the Vortex client's call.
AfterRemote(s, outcome) ==
  IF outcome.threw THEN ApiCatch(s, outcome.err) ELSE ApiRespond(s, 200, ApiData)

(***************************************************************************)
(* Actions                                                                 *)
(***************************************************************************)
\* createVortexWebhookHandler(webhooks, handlers) has returned the handler.
Init ==
  /\ handlers \in Registries
  /\ live = {"d1"}
  /\ traffic = "any"
  /\ inv = [d \in Deliveries |-> Idle]
  /\ envApiKey = ""
  /\ ConfigLoaded
  /\ api = ApiIdle

\* Requests of two deliveries that overlap: one of each kind of outcome.
PairRequests ==
  {r \in Requests :
     /\ r.body = Obj(EventA)
     /\ r.rawBody \in {Undefined, Buf(TextA), Str(TextB), Buf(TextJunk)}
     /\ r.header \in {AbsentHeader, StrHeader(Sign(TextA)), StrHeader(Sign(TextB)),
                       StrHeader(Sign(TextJunk)), StrHeader(BadSig),
                       ArrHeader([i \in 1..2 |-> IF i = 1 THEN Sign(TextA) ELSE BadSig])}}

\* The requests that may arrive in this run.
Arrivals ==
  CASE traffic = "any" -> Requests
    [] traffic = "pair" -> PairRequests
    [] OTHER -> {}

\* The invocations that are suspended at an await.
InFlight == {e \in Deliveries : inv[e].pc \notin {"idle", "done"}}

\* The server calls the handler with a request.
Invoke(d) ==
  /\ d \in live
  /\ inv[d].pc = "idle"
  /\ \E req \in Arrivals, onErrorThrows \in BOOLEAN :
       inv' = [inv EXCEPT ![d] =
                 HandleRequest([Idle EXCEPT !.req = req, !.promise = "pending",
                                            !.inFlight = InFlight],
                               handlers, onErrorThrows)]
  /\ UNCHANGED <<handlers, live, traffic, configVars, apiVars>>

\* The generic handler's promise settles and handleEvent continues.
SettleGeneric(d) ==
  /\ inv[d].pc = "awaitGeneric"
  /\ \E outcome \in Outcomes, onErrorThrows \in BOOLEAN :
       inv' = [inv EXCEPT ![d] = AfterGeneric(inv[d], outcome, handlers, onErrorThrows)]
  /\ UNCHANGED <<handlers, live, traffic, configVars, apiVars>>

\* The type-specific handler's promise settles and handleEvent continues.
SettleSpecific(d) ==
  /\ inv[d].pc = "awaitSpecific"
  /\ \E outcome \in Outcomes, onErrorThrows \in BOOLEAN :
       inv' = [inv EXCEPT ![d] = AfterSpecific(inv[d], outcome, handlers, onErrorThrows)]
  /\ UNCHANGED <<handlers, live, traffic, configVars, apiVars>>

\* handleEvent's promise has settled; the handler continues after its await.
Resume(d) ==
  /\ inv[d].pc = "awaitDispatch"
  /\ \E onErrorThrows \in BOOLEAN :
       inv' = [inv EXCEPT ![d] = ResumeHandler(inv[d], handlers, onErrorThrows)]
  /\ UNCHANGED <<handlers, live, traffic, configVars, apiVars>>

\* The server calls the handler for two deliveries whose handling may overlap.
InitPair ==
  /\ handlers \in Registries
  /\ live = Deliveries
  /\ traffic = "pair"
  /\ inv = [d \in Deliveries |-> Idle]
  /\ envApiKey = ""
  /\ ConfigLoaded
  /\ api = ApiIdle

Next ==
  \E d \in Deliveries :
    \/ Invoke(d)
    \/ SettleGeneric(d)
    \/ SettleSpecific(d)
    \/ Resume(d)

vars == <<webhookVars, configVars, apiVars>>

Spec == Init /\ [][Next]_vars

\* Two invocations of the same handler function, interleaved at their awaits.
SpecPair == InitPair /\ [][Next]_vars

(***************************************************************************)
(* Actions of the configuration singleton                                  *)
(***************************************************************************)
\* No webhook handler has been created and src/config.ts has been loaded.
InitConfig ==
  /\ handlers = [onEvent |-> FALSE, on |-> {}, onError |-> FALSE]
  /\ live = {}
  /\ traffic = "none"
  /\ inv = [d \in Deliveries |-> Idle]
  /\ envApiKey \in EnvApiKeys
  /\ ConfigLoaded
  /\ api = ApiIdle

\* Assignment of the four module-level variables.
SetModule(m) ==
  /\ configTemplate' = m.configTemplate
  /\ isConfigLocked' = m.isConfigLocked
  /\ configPromise' = m.configPromise
  /\ lazyConfigFactory' = m.lazyConfigFactory

\* Whether some configureVortex call has succeeded.
HasSucceeded == firstConfig # NoConfig

\* Bookkeeping of one call of `op` that threw `threw`.
Called(op, via, threw) ==
  [op |-> op, via |-> via, lockedBefore |-> HasSucceeded, threw |-> threw]

\* Bookkeeping of a configureVortex(config) call that threw `threw`.
FirstSuccess(config, threw) ==
  IF ~HasSucceeded /\ threw = NoError THEN config ELSE firstConfig

\* The promises configureVortexAsync has been handed so far.
AsyncPromises == {i \in DOMAIN promises : promises[i].by = "async"}

\* A direct call of configureVortex(config).
CallConfigureVortex ==
  \E config \in Configs :
    LET r == ConfigureVortex(ModuleState, config, envApiKey) IN
    /\ SetModule(r.m)
    /\ lastCall' = Called("configureVortex", "direct", r.threw)
    /\ firstConfig' = FirstSuccess(config, r.threw)
    /\ UNCHANGED <<envApiKey, promises, getCalls, factoryCalls, webhookVars, apiVars>>

\* configureVortexAsync(promise): configPromise = promise.then(...).
CallConfigureVortexAsyncPromise ==
  /\ Cardinality(AsyncPromises) < MaxAsyncPromises
  /\ promises' = Append(promises, Pending("async"))
  /\ SetModule([ModuleState EXCEPT !.configPromise = Len(promises) + 1])
  /\ lastCall' = Called("configureVortexAsync", "promise", NoError)
  /\ UNCHANGED <<envApiKey, getCalls, factoryCalls, firstConfig, webhookVars, apiVars>>

\* configureVortexAsync(config): the else branch calls configureVortex.
CallConfigureVortexAsyncValue ==
  \E config \in Configs :
    LET r == ConfigureVortex(ModuleState, config, envApiKey) IN
    /\ SetModule(r.m)
    /\ lastCall' = Called("configureVortex", "async", r.threw)
    /\ firstConfig' = FirstSuccess(config, r.threw)
    /\ UNCHANGED <<envApiKey, promises, getCalls, factoryCalls, webhookVars, apiVars>>

\* A call of configureVortexLazy(configFactory).
CallConfigureVortexLazy ==
  \E factory \in Factories :
    LET r == ConfigureVortexLazy(ModuleState, factory) IN
    /\ SetModule(r.m)
    /\ lastCall' = Called("configureVortexLazy", "direct", r.threw)
    /\ UNCHANGED <<envApiKey, promises, getCalls, factoryCalls, firstConfig, webhookVars, apiVars>>

\* A getVortexConfig call that has returned or thrown `result`, having
\* awaited the promise `awaited` (0 when it did not await), which was still
\* pending when the call began to wait or not.
Settle(awaited, pending, result) ==
  [pc |-> "done", awaits |-> awaited, pending |-> pending, ok |-> result.ok,
   config |-> result.config, err |-> result.err]

\* getVortexConfig() up to its await, or to its end when it does not await.
CallGetVortexConfig(g) ==
  /\ getCalls[g].pc \in {"idle", "done"}
  /\ LET due == LazyInitDue(ModuleState)
         m == IF due
                THEN [ModuleState EXCEPT !.configPromise = Len(promises) + 1]
                ELSE ModuleState
     IN /\ SetModule(m)
        /\ promises' = IF due THEN Append(promises, Pending("lazy")) ELSE promises
        /\ factoryCalls' = IF due THEN factoryCalls + 1 ELSE factoryCalls
        /\ getCalls' =
             [getCalls EXCEPT ![g] =
                IF MustAwait(m)
                  THEN [NotCalled EXCEPT
                          !.pc = "awaiting",
                          !.awaits = m.configPromise,
                          !.pending = due \/ promises[m.configPromise].state = "pending"]
                  ELSE Settle(0, FALSE, BuildConfig(m, envApiKey))]
  /\ UNCHANGED <<envApiKey, lastCall, firstConfig, webhookVars, apiVars>>

\* The promise handed to configureVortexAsync, or made by the factory,
\* settles and the then-callback runs.
SettlePromise(i) ==
  /\ promises[i].state = "pending"
  /\ \E source \in Sources :
       LET r == ThenConfigure(ModuleState, promises[i], source, envApiKey) IN
       /\ SetModule(r.m)
       /\ promises' = [promises EXCEPT ![i] = r.promise]
       /\ lastCall' = IF r.called
                        THEN Called("configureVortex", "then", r.threw)
                        ELSE lastCall
       /\ firstConfig' = IF r.called
                           THEN FirstSuccess(source.config, r.threw)
                           ELSE firstConfig
  /\ UNCHANGED <<envApiKey, getCalls, factoryCalls, webhookVars, apiVars>>

\* getVortexConfig() after `await configPromise`.
ResumeGetVortexConfig(g) ==
  /\ getCalls[g].pc = "awaiting"
  /\ promises[getCalls[g].awaits].state # "pending"
  /\ getCalls' =
       [getCalls EXCEPT ![g] =
          IF promises[getCalls[g].awaits].state = "rejected"
            THEN Settle(getCalls[g].awaits, getCalls[g].pending,
                        [ok |-> FALSE, config |-> NoConfig,
                         err |-> promises[getCalls[g].awaits].err])
            ELSE Settle(getCalls[g].awaits, getCalls[g].pending,
                        BuildConfig(ModuleState, envApiKey))]
  /\ UNCHANGED <<configTemplate, isConfigLocked, configPromise, lazyConfigFactory,
                 envApiKey, promises, factoryCalls, lastCall, firstConfig, webhookVars, apiVars>>

NextConfig ==
  \/ CallConfigureVortex
  \/ CallConfigureVortexAsyncPromise
  \/ CallConfigureVortexAsyncValue
  \/ CallConfigureVortexLazy
  \/ \E g \in Callers : CallGetVortexConfig(g)
  \/ \E i \in DOMAIN promises : SettlePromise(i)
  \/ \E g \in Callers : ResumeGetVortexConfig(g)

\* The configuration singleton under every order of calls and settlements.
SpecConfig == InitConfig /\ [][NextConfig]_vars

(***************************************************************************)
(* Actions of the route handlers                                           *)
(***************************************************************************)
\* The singleton after configureVortex(config) has succeeded.
Configured(config) ==
  [Loaded EXCEPT !.configTemplate = config, !.isConfigLocked = TRUE]

\* The singleton after the lazy factory's promise, number 1, has rejected.
LazyRejected == [Loaded EXCEPT !.configPromise = 1, !.lazyConfigFactory = "factoryA"]

\* The application has configured the singleton, or has not, or its lazy
\* configuration has failed; no request has arrived.
InitApi ==
  /\ handlers = [onEvent |-> FALSE, on |-> {}, onError |-> FALSE]
  /\ live = {}
  /\ traffic = "none"
  /\ inv = [d \in Deliveries |-> Idle]
  /\ envApiKey \in EnvApiKeys
  /\ getCalls = [g \in Callers |-> NotCalled]
  /\ api = ApiIdle
  /\ \/ /\ ConfigLoaded
     \/ \E config \in ApiConfigs :
          /\ ModuleIs(Configured(config))
          /\ promises = << >>
          /\ factoryCalls = 0
          /\ lastCall = [NoCall EXCEPT !.op = "configureVortex", !.via = "direct"]
          /\ firstConfig = config
     \/ /\ ModuleIs(LazyRejected)
        /\ promises = <<[Pending("lazy") EXCEPT !.state = "rejected", !.err = SourceError]>>
        /\ factoryCalls = 1
        /\ lastCall = [NoCall EXCEPT !.op = "configureVortexLazy", !.via = "direct"]
        /\ firstConfig = NoConfig

\* Fastify calls a route handler with a request.
ApiReceive ==
  /\ api.pc = "idle"
  /\ \E req \in ApiRequests : api' = EnterHandler(api, req)
  /\ UNCHANGED <<webhookVars, configVars>>

\* The handler's `await getVortexConfig()` settles.
ApiConfigResolved ==
  /\ api.pc = "awaitConfig"
  /\ api' = AfterConfig(api, GetVortexConfigSettled(ModuleState, promises, envApiKey))
  /\ UNCHANGED <<webhookVars, configVars>>

\* The `await getVortexConfig()` of authenticateRequest settles.
ApiAuthConfigResolved ==
  /\ api.pc = "awaitAuthConfig"
  /\ api' = AfterAuthConfig(api, GetVortexConfigSettled(ModuleState, promises, envApiKey))
  /\ UNCHANGED <<webhookVars, configVars>>

\* The authenticateUser hook settles.
ApiAuthenticateUserSettled ==
  /\ api.pc = "awaitAuthenticateUser"
  /\ \E outcome \in AuthOutcomes, jwt \in RemoteOutcomes :
       LET s == [api EXCEPT !.authResults = Append(@, outcome)] IN
       api' = IF IsJwt(api)
                THEN JwtAfterAuth(s, outcome, jwt)
                ELSE AuthenticateRequest(s, outcome)
  /\ UNCHANGED <<webhookVars, configVars>>

\* The access hook settles.
ApiHookSettled ==
  /\ api.pc = "awaitHook"
  /\ \E outcome \in AccessOutcomes :
       api' = AfterHook([api EXCEPT !.hookResults = Append(@, outcome)], outcome)
  /\ UNCHANGED <<webhookVars, configVars>>

\* The call of the Vortex client settles.
ApiRemoteSettled ==
  /\ api.pc = "awaitRemote"
  /\ \E outcome \in RemoteOutcomes :
       api' = AfterRemote([api EXCEPT !.remoteResults = Append(@, outcome)], outcome)
  /\ UNCHANGED <<webhookVars, configVars>>

NextApi ==
  \/ ApiReceive
  \/ ApiConfigResolved
  \/ ApiAuthConfigResolved
  \/ ApiAuthenticateUserSettled
  \/ ApiHookSettled
  \/ ApiRemoteSettled

\* One request to a route handler, under every behaviour of the hooks and of
\* the Vortex client.
SpecApi == InitApi /\ [][NextApi]_vars

TypeOK ==
  /\ handlers \in Registries
  /\ live \subseteq Deliveries
  /\ traffic \in {"any", "pair", "none"}
  /\ \A d \in Deliveries :
       /\ inv[d].pc \in {"idle", "awaitGeneric", "awaitSpecific", "awaitDispatch", "done"}
       /\ inv[d].promise \in {"none", "pending", "resolved", "rejected"}
  /\ configTemplate \in Configs \cup ApiConfigs \cup {NoConfig}
  /\ api.pc \in {"idle", "awaitConfig", "awaitAuthConfig", "awaitAuthenticateUser",
               "awaitHook", "awaitRemote", "done"}
  /\ isConfigLocked \in BOOLEAN
  /\ configPromise \in 0..Len(promises)
  /\ lazyConfigFactory \in Factories \cup {NoFactory}
  /\ envApiKey \in EnvApiKeys
  /\ factoryCalls \in 0..1
  /\ \A g \in Callers : getCalls[g].pc \in {"idle", "awaiting", "done"}

(***************************************************************************)
(* Properties of the webhook handler                                       *)
(***************************************************************************)
Started(d) == inv[d].pc # "idle"
Finished(d) == inv[d].pc = "done"
Header(d) == inv[d].req.header

\* The request carries no signature value: no header, or an empty one.
ZeroValues(d) == Header(d).kind = "absent" \/ Header(d) = StrHeader("")
\* The request carries two or more signature values.
SeveralValues(d) == Header(d).kind = "array" /\ Len(Header(d).values) >= 2
\* The request carries exactly one, non-empty, signature value.
OneValue(d) == Header(d).kind = "string" /\ Header(d).values[1] # ""
\* request.rawBody is neither a Buffer nor a string.
NoRawBody(d) == inv[d].req.rawBody.kind \in {"undefined", "null"}

\* C1: a request whose x-vortex-signature header is absent or the empty
\* string is answered 401 {error: 'Missing X-Vortex-Signature header'},
\* whatever its body or rawBody, and neither constructEvent nor a registered
\* handler is invoked.
C1_MissingHeaderIs401 ==
  \A d \in Deliveries :
    (Started(d) /\ ZeroValues(d)) =>
      /\ Finished(d)
      /\ inv[d].statusCalls = <<401>>
      /\ inv[d].sendCalls = <<ErrorBody(MsgMissing)>>
      /\ inv[d].constructCalls = << >>
      /\ inv[d].handlerCalls = << >>

\* An empty header on a request whose raw body is there has been answered.
C1_Witness ==
  \E d \in Deliveries :
    /\ Finished(d)
    /\ Header(d) = StrHeader("")
    /\ inv[d].req.rawBody.kind = "buffer"
    /\ inv[d].statusCalls = <<401>>

\* C2: a request with two or more x-vortex-signature values is answered 400
\* {error: 'Multiple X-Vortex-Signature headers are not allowed'}, also when
\* one value is the payload's correct signature and whether or not a raw
\* body is available; the first value is never verified.
C2_MultipleHeadersIs400 ==
  \A d \in Deliveries :
    (Started(d) /\ SeveralValues(d)) =>
      /\ Finished(d)
      /\ inv[d].statusCalls = <<400>>
      /\ inv[d].sendCalls = <<ErrorBody(MsgMultiple)>>
      /\ inv[d].constructCalls = << >>
      /\ inv[d].handlerCalls = << >>

\* A repeated header whose first value is the correct signature of the
\* captured raw body has been answered.
C2_Witness ==
  \E d \in Deliveries :
    /\ Finished(d)
    /\ SeveralValues(d)
    /\ inv[d].req.rawBody.kind = "buffer"
    /\ Header(d).values[1] = Sign(inv[d].req.rawBody.text)
    /\ Parse(inv[d].req.rawBody.text).ok
    /\ inv[d].statusCalls = <<400>>

\* The positions of the trace at which `what` happened.
Positions(d, what) == {i \in 1..Len(inv[d].trace) : inv[d].trace[i] \in what}

\* C3: no registered handler (onEvent or on[event.type]) is invoked unless
\* constructEvent has returned successfully before, for that delivery: never
\* after a failed signature check, a rejected header arity or an unavailable
\* raw body.
C3_NoHandlerBeforeVerification ==
  \A d \in Deliveries :
    inv[d].handlerCalls # << >> =>
      /\ OneValue(d)
      /\ ~NoRawBody(d) \/ inv[d].req.body.kind = "string"
      /\ Positions(d, {"constructEvent.throw"}) = {}
      /\ \E i \in Positions(d, {"constructEvent.ok"}) :
           \A j \in Positions(d, {"onEvent", "on"}) : i < j
      /\ \A c \in 1..Len(inv[d].handlerCalls) :
           inv[d].handlerCalls[c].event = inv[d].event

\* Both handlers have been invoked for a verified delivery.
C3_Witness ==
  \E d \in Deliveries :
    /\ Len(inv[d].handlerCalls) = 2
    /\ Len(inv[d].constructCalls) = 1
    /\ inv[d].constructCalls[1].ok

\* C4: constructEvent is attempted only for a request with exactly one
\* signature value; the arity check precedes raw-body resolution and
\* verification, so zero values always end in the missing-header 401 and
\* several values always end in 400, neither replaced by the other nor by a
\* 500 or 401 of a later step.
C4_ArityCheckedFirst ==
  \A d \in Deliveries :
    /\ inv[d].constructCalls # << >> => OneValue(d)
    /\ (Started(d) /\ ZeroValues(d)) =>
         /\ inv[d].statusCalls = <<401>>
         /\ inv[d].sendCalls # <<ErrorBody(MsgInvalidSignature)>>
    /\ (Started(d) /\ SeveralValues(d)) => inv[d].statusCalls = <<400>>
    /\ (Started(d) /\ inv[d].statusCalls = <<400>>) => SeveralValues(d)
    /\ (Started(d) /\ inv[d].sendCalls = <<ErrorBody(MsgMissing)>>) => ZeroValues(d)

\* A repeated header on a request with no raw payload at all ended in 400.
C4_Witness ==
  \E d \in Deliveries :
    /\ Finished(d)
    /\ SeveralValues(d)
    /\ NoRawBody(d)
    /\ inv[d].req.body.kind = "object"
    /\ inv[d].statusCalls = <<400>>

\* C5: with exactly one signature value, no rawBody and a body that is not a
\* string, the answer is 500 with a message that starts with 'Raw request
\* body not available'; constructEvent is not called and the parsed body is
\* not re-serialized.
C5_RawBodyUnavailableIs500 ==
  \A d \in Deliveries :
    (Started(d) /\ OneValue(d) /\ NoRawBody(d) /\ inv[d].req.body.kind # "string") =>
      /\ Finished(d)
      /\ inv[d].statusCalls = <<500>>
      /\ Len(inv[d].sendCalls) = 1
      /\ ~inv[d].sendCalls[1].received
      /\ Head(inv[d].sendCalls[1].error) = "Raw request body not available"
      /\ inv[d].constructCalls = << >>
      /\ inv[d].handlerCalls = << >>

\* The parsed body's re-serialization would have verified, and was not tried.
C5_Witness ==
  \E d \in Deliveries :
    /\ Finished(d)
    /\ NoRawBody(d)
    /\ inv[d].req.body.kind = "object"
    /\ Header(d) = StrHeader(Sign(Stringify(inv[d].req.body.obj)))
    /\ inv[d].statusCalls = <<500>>

\* C6: the payload given to constructEvent is request.rawBody itself whenever
\* rawBody is a Buffer or a string, also when request.body is a string too;
\* otherwise it is request.body, which then is a string.  It is never made
\* from a parsed body.
C6_PayloadIsRawBody ==
  \A d \in Deliveries :
    \A c \in 1..Len(inv[d].constructCalls) :
      LET payload == inv[d].constructCalls[c].payload
      IN /\ inv[d].req.rawBody.kind \in {"buffer", "string"} =>
              payload = inv[d].req.rawBody
         /\ inv[d].req.rawBody.kind \notin {"buffer", "string"} =>
              /\ inv[d].req.body.kind = "string"
              /\ payload = inv[d].req.body
         /\ inv[d].constructCalls[c].signature = Header(d).values[1]

\* rawBody and a different string body are both there; rawBody was verified.
C6_Witness ==
  \E d \in Deliveries :
    /\ inv[d].req.rawBody = Buf(TextASpaced)
    /\ inv[d].req.body = Str(TextA)
    /\ Len(inv[d].constructCalls) = 1
    /\ inv[d].constructCalls[1].payload = Buf(TextASpaced)
    /\ inv[d].constructCalls[1].ok

\* constructEvent was called and rejected the signature.
SignatureRejected(d) ==
  /\ Len(inv[d].constructCalls) = 1
  /\ inv[d].constructCalls[1].err.name = "VortexWebhookSignatureError"

\* onError was called exactly once, by the adapter, with constructEvent's error.
NotifiedOfRejection(d) ==
  inv[d].errorCalls = <<[by |-> "adapter", err |-> inv[d].constructCalls[1].err]>>

\* The onError hook threw while the adapter's catch clause was notifying it:
\* nothing was sent and the handler's promise rejected with that failure.
OnErrorEscaped(d) ==
  /\ handlers.onError
  /\ inv[d].errorCalls # << >>
  /\ inv[d].errorCalls[Len(inv[d].errorCalls)].by = "adapter"
  /\ inv[d].trace[Len(inv[d].trace)] = "onError"
  /\ inv[d].promise = "rejected"
  /\ inv[d].rejection = OnErrorFailure
  /\ inv[d].statusCalls = << >>
  /\ inv[d].sendCalls = << >>

\* C7 as stated: when constructEvent rejects the signature the answer is 401
\* {error: 'Invalid signature'}, no event handler is invoked, and onError, if
\* registered, is invoked with that error.
C7_AsStated ==
  \A d \in Deliveries :
    (Finished(d) /\ SignatureRejected(d)) =>
      /\ inv[d].statusCalls = <<401>>
      /\ inv[d].sendCalls = <<ErrorBody(MsgInvalidSignature)>>
      /\ inv[d].handlerCalls = << >>
      /\ handlers.onError => NotifiedOfRejection(d)

\* C7, amended: when constructEvent rejects the signature, no event handler
\* is invoked and onError, if registered, is invoked once with that error;
\* the answer is 401 {error: 'Invalid signature'} unless that onError call
\* throws, in which case nothing is sent and the handler's promise rejects.
C7_SignatureRejectedIs401 ==
  \A d \in Deliveries :
    (Started(d) /\ SignatureRejected(d)) =>
      /\ Finished(d)
      /\ inv[d].handlerCalls = << >>
      /\ handlers.onError => NotifiedOfRejection(d)
      /\ ~handlers.onError => inv[d].errorCalls = << >>
      /\ \/ /\ inv[d].promise = "resolved"
            /\ inv[d].statusCalls = <<401>>
            /\ inv[d].sendCalls = <<ErrorBody(MsgInvalidSignature)>>
         \/ OnErrorEscaped(d)

\* A rejected signature was reported to onError and answered 401.
C7_Witness ==
  \E d \in Deliveries :
    /\ Finished(d)
    /\ SignatureRejected(d)
    /\ NotifiedOfRejection(d)
    /\ inv[d].statusCalls = <<401>>
    /\ inv[d].sendCalls = <<ErrorBody(MsgInvalidSignature)>>

\* The errors the registered handlers of this delivery rejected with.
HandlerFailures(d) ==
  {inv[d].settlements[i].outcome.err :
     i \in {k \in 1..Len(inv[d].settlements) : ~inv[d].settlements[k].outcome.ok}}

\* C8: when the signature verifies and a registered handler throws or
\* rejects with e, the answer is 500 {error: 'Webhook handler error'} and
\* onError, if registered, is invoked with e.
C8_HandlerFailureIs500 ==
  \A d \in Deliveries :
    \A e \in HandlerFailures(d) :
      Finished(d) =>
        /\ inv[d].constructCalls[1].ok
        /\ inv[d].statusCalls = <<500>>
        /\ inv[d].sendCalls = <<ErrorBody(MsgHandlerError)>>
        /\ handlers.onError => \E i \in 1..Len(inv[d].errorCalls) : inv[d].errorCalls[i].err = e

\* C9 as stated: every invocation calls reply.status and reply.send exactly
\* once each before its promise settles, on every path.
C9_AsStated ==
  \A d \in Deliveries :
    Finished(d) => Len(inv[d].statusCalls) = 1 /\ Len(inv[d].sendCalls) = 1

\* C9, amended: reply.status and reply.send are never called more than once,
\* always together and only as the handler's last step; when the handler's
\* promise settles each has been called exactly once, except when onError
\* throws out of the catch clause, where neither has been called.
C9_OneResponse ==
  \A d \in Deliveries :
    /\ Len(inv[d].statusCalls) <= 1
    /\ Len(inv[d].sendCalls) = Len(inv[d].statusCalls)
    /\ ~Finished(d) => inv[d].sendCalls = << >>
    /\ Finished(d) =>
         \/ /\ Len(inv[d].statusCalls) = 1
            /\ Positions(d, {"status"}) = {Len(inv[d].trace) - 1}
            /\ Positions(d, {"send"}) = {Len(inv[d].trace)}
         \/ OnErrorEscaped(d)

\* A delivery that went through both handlers was answered once, with 200.
C9_Witness ==
  \E d \in Deliveries :
    /\ Finished(d)
    /\ Len(inv[d].settlements) = 2
    /\ inv[d].statusCalls = <<200>>
    /\ inv[d].sendCalls = <<ReceivedBody>>

\* C10 as stated: for every request the handler's promise resolves, never
\* rejects, after a response has been sent.
C10_AsStated ==
  \A d \in Deliveries :
    Finished(d) => inv[d].promise = "resolved" /\ inv[d].sendCalls # << >>

\* C10, amended: no signature error, parse error or event-handler error
\* leaves the handler: its promise resolves after a response has been sent,
\* and rejects only with the failure of an onError hook that threw in the
\* catch clause.
C10_NoErrorEscapes ==
  \A d \in Deliveries :
    /\ ~Finished(d) => inv[d].promise \in {"none", "pending"}
    /\ Finished(d) =>
         \/ /\ inv[d].promise = "resolved"
            /\ inv[d].rejection = NoError
            /\ inv[d].sendCalls # << >>
         \/ OnErrorEscaped(d)

\* A verified but unparsable payload, and a handler that rejected, each
\* ended with a resolved promise and a 500.
C10_Witness ==
  \E d \in Deliveries :
    /\ Finished(d)
    /\ inv[d].promise = "resolved"
    /\ inv[d].statusCalls = <<500>>
    /\ Len(inv[d].constructCalls) = 1
    /\ \/ inv[d].constructCalls[1].err = ParseError
       \/ HandlerFailures(d) # {}


\* The onError calls of the adapter's catch clause that threw.
AdapterHookFailures(d) ==
  {i \in 1..Len(inv[d].errorCalls) :
     inv[d].errorCalls[i].by = "adapter" /\ inv[d].errorThrows[i]}

\* C11: a failure of the onError hook is not caught by the adapter: when
\* onError throws while it is notified of a signature failure, the exception
\* leaves the webhook handler (its promise rejects with it) and is not
\* swallowed into a response.
C11_OnErrorFailurePropagates ==
  \A d \in Deliveries :
    AdapterHookFailures(d) # {} =>
      /\ Finished(d)
      /\ inv[d].promise = "rejected"
      /\ inv[d].rejection = OnErrorFailure
      /\ inv[d].statusCalls = << >>
      /\ inv[d].sendCalls = << >>

\* constructEvent rejected the signature and the notified onError threw.
C11_Witness ==
  \E d \in Deliveries :
    /\ SignatureRejected(d)
    /\ NotifiedOfRejection(d)
    /\ AdapterHookFailures(d) = {1}
    /\ inv[d].promise = "rejected"


\* constructEvent returned the event of this delivery: the signature verified.
Verified(d) == Len(inv[d].constructCalls) = 1 /\ inv[d].constructCalls[1].ok

\* The event the verified payload parses to.
ParsedEvent(d) == Parse(inv[d].constructCalls[1].payload.text).event

\* The handlers registered for an event, in dispatch order, each called once.
MatchingCalls(ev) ==
  (IF handlers.onEvent THEN <<[slot |-> "onEvent", event |-> ev]>> ELSE << >>)
    \o (IF ev.type \in handlers.on THEN <<[slot |-> "on", event |-> ev]>> ELSE << >>)

\* Every handler that was invoked has completed without error.
AllHandlersCompleted(d) ==
  /\ Len(inv[d].settlements) = Len(inv[d].handlerCalls)
  /\ HandlerFailures(d) = {}

\* C12: when the signature verifies and all invoked handlers complete
\* without error, the answer is 200 {received: true} and each registered
\* handler matching the event (onEvent, on[event.type]) has been invoked
\* exactly once, with the parsed event.
C12_SuccessIs200 ==
  \A d \in Deliveries :
    (Finished(d) /\ Verified(d) /\ AllHandlersCompleted(d)) =>
      /\ inv[d].statusCalls = <<200>>
      /\ inv[d].sendCalls = <<ReceivedBody>>
      /\ inv[d].handlerCalls = MatchingCalls(ParsedEvent(d))
      /\ inv[d].promise = "resolved"

\* A verified raw buffer was dispatched to the one handler registered for
\* its type and acknowledged.
C12_Witness ==
  \E d \in Deliveries :
    /\ Finished(d)
    /\ inv[d].req.rawBody = Buf(TextA)
    /\ ~handlers.onEvent
    /\ inv[d].handlerCalls = <<[slot |-> "on", event |-> EventA]>>
    /\ inv[d].statusCalls = <<200>>
    /\ inv[d].sendCalls = <<ReceivedBody>>


\* A handler has been invoked and its promise has not settled yet.
HandlerRunning(d) == Len(inv[d].settlements) < Len(inv[d].handlerCalls)

\* C13: the response is written only after dispatch has finished: the 200
\* (or 500) is sent strictly after every invoked handler's promise has
\* settled, never while a handler is still running.
C13_ResponseAfterDispatch ==
  \A d \in Deliveries :
    /\ HandlerRunning(d) => inv[d].statusCalls = << >> /\ inv[d].sendCalls = << >>
    /\ \A i \in Positions(d, {"status", "send"}) :
         \A j \in Positions(d, {"onEvent", "on", "fulfilled", "rejected"}) : j < i
    /\ inv[d].sendCalls # << >> => ~HandlerRunning(d) /\ Finished(d)

\* Both handlers ran, the second one rejected, and the 500 followed.
C13_Witness ==
  \E d \in Deliveries :
    /\ Finished(d)
    /\ Len(inv[d].settlements) = 2
    /\ ~inv[d].settlements[2].outcome.ok
    /\ inv[d].statusCalls = <<500>>
    /\ inv[d].trace[Len(inv[d].trace)] = "send"


\* The terminal outcomes of the adapter's state machine.
SixOutcomes ==
  { [status |-> 401, body |-> ErrorBody(MsgMissing)],
    [status |-> 400, body |-> ErrorBody(MsgMultiple)],
    [status |-> 500, body |-> ErrorBody(MsgRawBody)],
    [status |-> 401, body |-> ErrorBody(MsgInvalidSignature)],
    [status |-> 500, body |-> ErrorBody(MsgHandlerError)],
    [status |-> 200, body |-> ReceivedBody] }

\* Two deliveries carry the same request and met the same behaviour of the
\* collaborators: the same handler results and the same onError results
\* (constructEvent is a function of the request).
SameRunInputs(d, e) ==
  /\ inv[d].req = inv[e].req
  /\ inv[d].settlements = inv[e].settlements
  /\ inv[d].errorThrows = inv[e].errorThrows

\* C14: every response sent is one of exactly six terminal outcomes, a
\* request gets at most one of them, and the same request with the same
\* collaborator behaviour always gets the same outcome.
C14_SixExclusiveOutcomes ==
  /\ Cardinality(SixOutcomes) = 6
  /\ \A d \in Deliveries :
       /\ Len(inv[d].statusCalls) <= 1
       /\ Len(inv[d].sendCalls) = Len(inv[d].statusCalls)
       /\ inv[d].sendCalls # << >> =>
            [status |-> inv[d].statusCalls[1], body |-> inv[d].sendCalls[1]] \in SixOutcomes
  /\ \A d, e \in Deliveries :
       (Finished(d) /\ Finished(e) /\ SameRunInputs(d, e)) =>
         /\ inv[d].statusCalls = inv[e].statusCalls
         /\ inv[d].sendCalls = inv[e].sendCalls
         /\ inv[d].promise = inv[e].promise

\* The same verified request was delivered twice, the generic handler
\* rejected both times, and both deliveries ended in the same 500.
C14_Witness ==
  /\ Finished("d1") /\ Finished("d2")
  /\ SameRunInputs("d1", "d2")
  /\ Verified("d1")
  /\ HandlerFailures("d1") # {}
  /\ inv["d1"].statusCalls = <<500>>
  /\ inv["d2"].statusCalls = <<500>>


\* Two deliveries differ at most in the messages of the errors their
\* handlers rejected with.
SameUpToMessages(d, e) ==
  /\ inv[d].req = inv[e].req
  /\ inv[d].errorThrows = inv[e].errorThrows
  /\ Len(inv[d].settlements) = Len(inv[e].settlements)
  /\ \A i \in 1..Len(inv[d].settlements) :
       /\ inv[d].settlements[i].slot = inv[e].settlements[i].slot
       /\ inv[d].settlements[i].outcome.ok = inv[e].settlements[i].outcome.ok
       /\ inv[d].settlements[i].outcome.err.name = inv[e].settlements[i].outcome.err.name

\* The messages of the errors raised while a delivery was handled.
InternalMessages(d) ==
  {inv[d].constructCalls[i].err.message : i \in 1..Len(inv[d].constructCalls)}
    \cup {inv[d].settlements[i].outcome.err.message : i \in 1..Len(inv[d].settlements)}
    \cup {inv[d].dispatch.err.message, OnErrorFailure.message}

\* C15: error responses do not depend on the internal error: deliveries that
\* differ only in the message of the error thrown by constructEvent or by an
\* event handler get the same status and body, no piece of a body is an
\* exception's message, and only the raw-body-unavailable text is verbose.
C15_NoErrorDetailInResponse ==
  /\ \A d, e \in Deliveries :
       (Finished(d) /\ Finished(e) /\ SameUpToMessages(d, e)) =>
         /\ inv[d].statusCalls = inv[e].statusCalls
         /\ inv[d].sendCalls = inv[e].sendCalls
  /\ \A d \in Deliveries :
       \A i \in 1..Len(inv[d].sendCalls) :
         /\ \A k \in 1..Len(inv[d].sendCalls[i].error) :
              inv[d].sendCalls[i].error[k] \notin InternalMessages(d) \ {""}
         /\ Len(inv[d].sendCalls[i].error) > 1 => inv[d].sendCalls[i].error = MsgRawBody

\* The same request twice; the handlers rejected with errors of the same
\* name and different messages; the two responses are the same 500.
C15_Witness ==
  /\ Finished("d1") /\ Finished("d2")
  /\ SameUpToMessages("d1", "d2")
  /\ Len(inv["d1"].settlements) = 1
  /\ inv["d1"].settlements[1].outcome.err.message = "Handler error"
  /\ inv["d2"].settlements[1].outcome.err.message = "db password=hunter2"
  /\ inv["d1"].sendCalls = <<ErrorBody(MsgHandlerError)>>
  /\ inv["d2"].sendCalls = <<ErrorBody(MsgHandlerError)>>


\* Both a generic handler and a handler for this delivery's event type are
\* registered.
BothRegistered(d) ==
  Verified(d) /\ handlers.onEvent /\ ParsedEvent(d).type \in handlers.on

\* C16: with a valid signature and both onEvent and on[event.type]
\* registered, the generic handler is invoked first and has run to
\* completion before the type-specific handler is invoked; the two never run
\* concurrently and never in the opposite order.
C16_GenericBeforeSpecific ==
  \A d \in Deliveries :
    BothRegistered(d) =>
      /\ inv[d].handlerCalls # << >>
      /\ inv[d].handlerCalls[1].slot = "onEvent"
      /\ Len(inv[d].handlerCalls) - Len(inv[d].settlements) <= 1
      /\ Len(inv[d].handlerCalls) <= 2
      /\ Len(inv[d].handlerCalls) = 2 =>
           /\ inv[d].handlerCalls[2].slot = "on"
           /\ inv[d].settlements[1] = [slot |-> "onEvent", outcome |-> Fulfilled]
           /\ \E g \in Positions(d, {"onEvent"}), f \in Positions(d, {"fulfilled"}),
                 t \in Positions(d, {"on"}) : g < f /\ f < t
      /\ (Finished(d) /\ AllHandlersCompleted(d)) =>
           /\ Len(inv[d].handlerCalls) = 2
           /\ Positions(d, {"onEvent", "on", "fulfilled"}) = {2, 3, 4, 5}

\* The generic handler has completed and the type-specific one is running.
C16_Witness ==
  \E d \in Deliveries :
    /\ BothRegistered(d)
    /\ inv[d].pc = "awaitSpecific"
    /\ Len(inv[d].settlements) = 1
    /\ Len(inv[d].handlerCalls) = 2


\* The generic handler of this delivery threw or rejected.
GenericFailed(d) ==
  /\ inv[d].settlements # << >>
  /\ inv[d].settlements[1].slot = "onEvent"
  /\ ~inv[d].settlements[1].outcome.ok

\* C17: when a generic handler throws, its invocation comes before both the
\* onError call and the 500 response: in every run the order is handler
\* invoked, then onError notified (if registered), then response 500 sent.
C17_HandlerThenOnErrorThen500 ==
  \A d \in Deliveries :
    (Finished(d) /\ GenericFailed(d)) =>
      /\ inv[d].statusCalls = <<500>>
      /\ inv[d].sendCalls = <<ErrorBody(MsgHandlerError)>>
      /\ handlers.onError => Positions(d, {"onError"}) # {}
      /\ \A g \in Positions(d, {"onEvent"}) :
           /\ \A o \in Positions(d, {"onError"}) : g < o
           /\ \A r \in Positions(d, {"status", "send"}) : g < r
      /\ \A o \in Positions(d, {"onError"}) :
           \A r \in Positions(d, {"status", "send"}) : o < r


\* The delivery's event type has no registered type-specific handler.
TypeUnregistered(d) == Verified(d) /\ ParsedEvent(d).type \notin handlers.on

\* C18 as stated: a delivery with a valid signature whose event type has no
\* registered type-specific handler completes with 200 {received: true} and
\* onError is not invoked.
C18_AsStated ==
  \A d \in Deliveries :
    (Finished(d) /\ TypeUnregistered(d)) =>
      /\ inv[d].statusCalls = <<200>>
      /\ inv[d].sendCalls = <<ReceivedBody>>
      /\ inv[d].errorCalls = << >>

\* C18, amended: a delivery with a valid signature whose event type has no
\* registered type-specific handler, and whose generic handler, if one is
\* registered, completes without error, completes with 200 {received: true};
\* no type-specific handler is called and onError is not invoked.
C18_UnknownTypeIs200 ==
  \A d \in Deliveries :
    (Finished(d) /\ TypeUnregistered(d) /\ AllHandlersCompleted(d)) =>
      /\ inv[d].statusCalls = <<200>>
      /\ inv[d].sendCalls = <<ReceivedBody>>
      /\ inv[d].errorCalls = << >>
      /\ Positions(d, {"on", "onError"}) = {}
      /\ Len(inv[d].handlerCalls) = (IF handlers.onEvent THEN 1 ELSE 0)

\* An empty registry: the verified event was acknowledged with no handler.
C18_Witness ==
  \E d \in Deliveries :
    /\ Finished(d)
    /\ TypeUnregistered(d)
    /\ handlers = [onEvent |-> FALSE, on |-> {}, onError |-> FALSE]
    /\ inv[d].req.rawBody = Undefined
    /\ inv[d].req.body.kind = "string"
    /\ inv[d].handlerCalls = << >>
    /\ inv[d].statusCalls = <<200>>


\* Whether the onError call made by `who` for this delivery threw.
HookThrew(d, who) ==
  \E i \in 1..Len(inv[d].errorCalls) :
    inv[d].errorCalls[i].by = who /\ inv[d].errorThrows[i]

\* How the handler registered in `slot` settled for this delivery.
OutcomeOf(d, slot) ==
  LET at == {i \in 1..Len(inv[d].settlements) : inv[d].settlements[i].slot = slot}
  IN IF at = {} THEN Fulfilled ELSE inv[d].settlements[CHOOSE i \in at : TRUE].outcome

\* The invocation of the handler for this delivery's request, run on its own
\* from entry to settlement with the collaborator results the delivery met.
HandledAlone(d) ==
  LET s0 == HandleRequest([Idle EXCEPT !.req = inv[d].req, !.promise = "pending"],
                          handlers, HookThrew(d, "adapter"))
      s1 == IF s0.pc = "awaitGeneric"
              THEN AfterGeneric(s0, OutcomeOf(d, "onEvent"), handlers, HookThrew(d, "dispatcher"))
              ELSE s0
      s2 == IF s1.pc = "awaitSpecific"
              THEN AfterSpecific(s1, OutcomeOf(d, "on"), handlers, HookThrew(d, "dispatcher"))
              ELSE s1
  IN IF s2.pc = "awaitDispatch"
       THEN ResumeHandler(s2, handlers, HookThrew(d, "adapter"))
       ELSE s2

\* C19: deliveries handled concurrently by the same handler function are
\* independent: in every interleaving of two invocations at their awaits,
\* each request gets exactly the response it would get if handled alone.
C19_ConcurrentDeliveriesIndependent ==
  \A d \in Deliveries :
    Finished(d) =>
      /\ inv[d].statusCalls = HandledAlone(d).statusCalls
      /\ inv[d].sendCalls = HandledAlone(d).sendCalls
      /\ inv[d].promise = HandledAlone(d).promise
      /\ inv[d].handlerCalls = HandledAlone(d).handlerCalls
      /\ inv[d].trace = HandledAlone(d).trace

\* The second delivery arrived while the first was suspended at an await;
\* the first was acknowledged and the second, whose handler failed, was not.
C19_Witness ==
  /\ Finished("d1") /\ Finished("d2")
  /\ inv["d2"].inFlight = {"d1"}
  /\ inv["d1"].req # inv["d2"].req
  /\ inv["d1"].statusCalls = <<200>>
  /\ HandlerFailures("d2") # {}
  /\ inv["d2"].statusCalls = <<500>>


(***************************************************************************)
(* The configuration singleton                                             *)
(***************************************************************************)
\* A configure call made after the first success that ran the lock check.
LaterLockedCall ==
  /\ lastCall.lockedBefore
  /\ lastCall.op \in {"configureVortex", "configureVortexLazy"}

\* C20: once a configureVortex call has succeeded, every later configureVortex
\* or configureVortexLazy call throws 'Vortex configuration is already
\* locked...', and the stored config stays the first successful one, with its
\* apiKey and hooks, whatever configure*/getVortexConfig calls follow.
C20_OneTimeLock ==
  /\ HasSucceeded =>
       /\ isConfigLocked
       /\ configTemplate = firstConfig
       /\ configTemplate.apiKey = firstConfig.apiKey
       /\ configTemplate.hooks = firstConfig.hooks
  /\ LaterLockedCall => lastCall.threw = LockedError

\* A second config was refused after the lock, a factory and a promise were
\* handed in as well, and a getVortexConfig call has returned since.
C20_Witness ==
  /\ HasSucceeded
  /\ LaterLockedCall
  /\ lastCall.op = "configureVortexLazy"
  /\ lastCall.threw = LockedError
  /\ \E i \in DOMAIN promises :
       /\ promises[i].state = "rejected"
       /\ promises[i].err = LockedError
       /\ promises[i].config # firstConfig
  /\ \E g \in Callers : getCalls[g].pc = "done" /\ getCalls[g].ok


\* The response a delivery ended in.
EndedIn(d, code, msg) ==
  /\ Finished(d)
  /\ inv[d].statusCalls = <<code>>
  /\ inv[d].sendCalls = <<ErrorBody(msg)>>

\* C29: for one delivery onError is invoked at most once, counting the calls
\* of the adapter and of the dispatcher together, and it is not invoked at all
\* for a delivery that ends in 200, in 400, in the 401 of the missing header
\* or in the 500 of the unavailable raw body.
C29_OnErrorAtMostOnce ==
  \A d \in Deliveries :
    /\ Len(inv[d].errorCalls) <= 1
    /\ ( \/ (Finished(d) /\ inv[d].statusCalls = <<200>>)
         \/ EndedIn(d, 400, MsgMultiple)
         \/ EndedIn(d, 401, MsgMissing)
         \/ EndedIn(d, 500, MsgRawBody) ) => inv[d].errorCalls = << >>


\* The promises made by invoking the lazy factory.
LazyPromises == {i \in DOMAIN promises : promises[i].by = "lazy"}

\* What getVortexConfig returns once `config` is the stored one.
Returned(config) ==
  [apiKey |-> IF config.apiKey # "" THEN config.apiKey ELSE envApiKey,
   hooks |-> config.hooks]

\* This step is caller g's getVortexConfig call returning or throwing.
Completes(g) ==
  /\ CallGetVortexConfig(g) \/ ResumeGetVortexConfig(g)
  /\ getCalls'[g].pc = "done"

\* C26: once configureVortexLazy has registered a factory, getVortexConfig
\* calls, overlapping or not, invoke the factory at most once in total, and
\* when that invocation produced a configuration every one of them resolves
\* with it (no promise having been handed to configureVortexAsync).
C26_LazyFactoryOnce ==
  [][ /\ factoryCalls' <= 1
      /\ Cardinality(LazyPromises') = factoryCalls'
      /\ \A g \in Callers :
           (Completes(g) /\ lazyConfigFactory # NoFactory /\ AsyncPromises = {}) =>
             \A i \in LazyPromises :
               promises[i].state = "fulfilled" =>
                 /\ getCalls'[g].ok
                 /\ getCalls'[g].config = Returned(promises[i].config) ]_vars

\* Both callers called while the factory's promise was pending, the factory
\* was invoked once, and both calls resolved with the config it produced.
C26_Witness ==
  /\ factoryCalls = 1
  /\ AsyncPromises = {}
  /\ \E i \in LazyPromises :
       /\ promises[i].state = "fulfilled"
       /\ \A g \in Callers :
            /\ getCalls[g].pc = "done"
            /\ getCalls[g].awaits = i
            /\ getCalls[g].ok
            /\ getCalls[g].config = Returned(promises[i].config)


\* Caller g's getVortexConfig call waited on a configuration that was still
\* pending and this step is its return or throw.
CompletesAfterWaiting(g) ==
  /\ ResumeGetVortexConfig(g)
  /\ getCalls[g].pending

\* C27: a getVortexConfig call that waited on a pending lazy or async
\* configuration resolves with the stored configuration, also when
\* configureVortex was called directly and succeeded before the pending
\* promise settled.
C27_WaitingCallResolves ==
  [][ \A g \in Callers :
        (CompletesAfterWaiting(g) /\ configTemplate # NoConfig) =>
          /\ getCalls'[g].ok
          /\ getCalls'[g].config = Returned(configTemplate) ]_vars


\* The factory's promise i has rejected, or its config was refused.
LazyFailed(i) == i \in LazyPromises /\ promises[i].state = "rejected"

\* This step is the failure of the factory's promise i.
LazyFails(i) ==
  /\ SettlePromise(i)
  /\ promises[i].by = "lazy"
  /\ promises'[i].state = "rejected"

\* A configureVortex call that was not made by a then-callback has succeeded:
\* the one success there can be fulfilled no promise.
DirectSucceeded ==
  /\ HasSucceeded
  /\ \A i \in DOMAIN promises : promises[i].state # "fulfilled"

\* Caller g's call begins in this step and waits on promise i, which has
\* settled, without invoking the factory.
WaitsOnFailed(g, i) ==
  /\ factoryCalls' = factoryCalls
  /\ getCalls'[g].pc = "awaiting"
  /\ getCalls'[g].awaits = i
  /\ ~getCalls'[g].pending

\* Caller g's call ends in this step, rejecting with the error of promise i.
RejectsWith(g, i) ==
  /\ getCalls'[g].pc = "done"
  /\ ~getCalls'[g].ok
  /\ getCalls'[g].err = promises[i].err

ApiFinished == api.pc = "done"
IsInvitation == api.req.handler \in InvitationHandlers

\* The handler has resolved a configuration.
ConfigResolved == api.config # NoConfig

\* The access hook of this handler is configured.
HookConfigured == AccessHook(api.req.handler) \in HooksOf(api.config.hooks)

\* The access hook was called for this request and returned `allowed`.
HookReturned(allowed) ==
  /\ Len(api.hookCalls) = 1
  /\ api.hookCalls[1] = AccessHook(api.req.handler)
  /\ Len(api.hookResults) = 1
  /\ ~api.hookResults[1].threw
  /\ api.hookResults[1].allowed = allowed

\* authenticateUser was called for this request and returned a user.
UserAuthenticated ==
  /\ Len(api.authResults) = 1
  /\ ~api.authResults[1].threw
  /\ ~api.authResults[1].user.isNull

\* The condition under which the claim lets the remote call happen.
Permitted ==
  \/ HookConfigured /\ HookReturned(TRUE)
  \/ ~HookConfigured /\ UserAuthenticated

\* The access check has denied the request.
Denied ==
  \/ HookConfigured /\ HookReturned(FALSE)
  \/ ConfigResolved /\ ~HookConfigured /\ ~UserAuthenticated

\* C21 as stated: the Vortex client is called only for a permitted request,
\* and every request that is not permitted is answered 403 without a remote
\* call.
C21_AsStated ==
  IsInvitation =>
    /\ api.remoteCalls # << >> => Permitted
    /\ (ApiFinished /\ ~Permitted) =>
         (api.statusCalls = <<403>> /\ api.remoteCalls = << >>)

\* C21: an invitation handler calls the Vortex client only if the matching
\* access hook is configured and returned true, or no such hook is configured
\* and authenticateUser returned a user; in every other case it makes no
\* remote call, and it answers 403 when the access check denied: the hook
\* returned false, or no hook is configured and no user is authenticated.
C21_RemoteCallNeedsAccess ==
  IsInvitation =>
    /\ api.remoteCalls # << >> =>
         /\ Permitted
         /\ Len(api.remoteCalls) = 1
         /\ api.remoteCalls[1].method = RemoteMethod(api.req.handler)
    /\ ~Permitted => api.remoteCalls = << >>
    /\ (ApiFinished /\ Denied) =>
         /\ api.statusCalls = <<403>>
         /\ api.remoteCalls = << >>

\* A valid request met a config that has authenticateUser but not the
\* handler's access hook; authenticateUser returned null and the request was
\* answered 403 without a remote call.
C21_Witness ==
  /\ IsInvitation
  /\ ApiFinished
  /\ ConfigResolved
  /\ ~HookConfigured
  /\ Len(api.authResults) = 1
  /\ ~api.authResults[1].threw
  /\ api.authResults[1].user.isNull
  /\ api.statusCalls = <<403>>
  /\ api.sendCalls = <<ApiError(MsgAccessDeniedNoHook)>>
  /\ api.remoteCalls = << >>


IsJwtRequest == api.req.handler \in JwtHandlers

\* The resolved config has an authenticateUser hook.
HasAuthenticateUser == "authenticateUser" \in HooksOf(api.config.hooks)

\* authenticateUser was called for this request and returned null.
UserRefused ==
  /\ Len(api.authResults) = 1
  /\ ~api.authResults[1].threw
  /\ api.authResults[1].user.isNull

\* The response carries a token.
TokenSent == \E i \in 1..Len(api.sendCalls) : api.sendCalls[i] = ApiData

\* C22: handleJwtGeneration calls generateJwt, and sends a token, only when
\* the method is POST, an authenticateUser hook is configured and it returned
\* a user; it answers 405 to another method, 500 when no authenticateUser hook
\* is configured and 401 when the hook returned null, without a token.
C22_JwtOnlyForAuthenticatedUser ==
  IsJwtRequest =>
    /\ (api.remoteCalls # << >> \/ TokenSent) =>
         /\ api.req.method = "POST"
         /\ HasAuthenticateUser
         /\ UserAuthenticated
         /\ Len(api.remoteCalls) = 1
         /\ api.remoteCalls[1].method = "generateJwt"
    /\ (ApiFinished /\ api.req.method # "POST") =>
         /\ api.statusCalls = <<405>>
         /\ api.sendCalls = <<ApiError(MsgMethodNotAllowed)>>
    /\ (ApiFinished /\ api.req.method = "POST" /\ ConfigResolved /\ ~HasAuthenticateUser) =>
         /\ api.statusCalls = <<500>>
         /\ api.sendCalls = <<ApiError(MsgJwtNeedsAuth)>>
    /\ (ApiFinished /\ UserRefused) =>
         /\ api.statusCalls = <<401>>
         /\ api.sendCalls = <<ApiError(MsgUnauthorized)>>

\* A POST met a config with an authenticateUser hook that returned null: the
\* answer was 401 and generateJwt was not called.
C22_Witness ==
  /\ IsJwtRequest
  /\ ApiFinished
  /\ api.req.method = "POST"
  /\ HasAuthenticateUser
  /\ UserRefused
  /\ api.statusCalls = <<401>>
  /\ api.remoteCalls = << >>


\* authenticateUser was called for this request and threw or rejected.
AuthenticateUserFailed ==
  /\ Len(api.authResults) = 1
  /\ api.authResults[1].threw

\* The texts of the response bodies sent.
SentTexts ==
  UNION {{api.sendCalls[i].error[k] : k \in 1..Len(api.sendCalls[i].error)} :
           i \in 1..Len(api.sendCalls)}

\* C23: when the authenticateUser hook throws or rejects, authenticateRequest
\* returns null instead of propagating: the handler goes on to its access
\* check, and with no access hook configured it answers 403 without a remote
\* call; the response does not contain the hook's error message.
C23_AuthFailureIsNoUser ==
  (IsInvitation /\ AuthenticateUserFailed) =>
    /\ api.user.isNull
    /\ api.authResults[1].err.message \notin SentTexts
    /\ HookConfigured => api.hookCalls = <<AccessHook(api.req.handler)>>
    /\ ~HookConfigured =>
         /\ ApiFinished
         /\ api.statusCalls = <<403>>
         /\ api.sendCalls = <<ApiError(MsgAccessDeniedNoHook)>>
         /\ api.remoteCalls = << >>

\* authenticateUser threw for a valid request to a handler whose access hook
\* is not configured, and the answer was the 403.
C23_Witness ==
  /\ IsInvitation
  /\ AuthenticateUserFailed
  /\ api.authResults[1].err = AuthError
  /\ ~HookConfigured
  /\ ApiFinished
  /\ api.statusCalls = <<403>>
  /\ api.remoteCalls = << >>


\* A POST to handleAcceptInvitations whose body was parsed.
IsAccept ==
  /\ api.req.handler = "handleAcceptInvitations"
  /\ api.req.method = "POST"
  /\ api.req.body.present

\* The data of the call of acceptInvitations made for this request.
Forwarded == api.remoteCalls[1].data

\* C24: handleAcceptInvitations accepts both payload shapes and prefers the
\* new one. With user in the body the data forwarded to acceptInvitations is
\* built from user's email, phone and name, whatever target is; with only
\* target in the body the legacy {type, value} is forwarded; with neither the
\* answer is 400 and the Vortex client is never called.
C24_UserTakesPrecedence ==
  IsAccept =>
    /\ Len(api.remoteCalls) <= 1
    /\ (Len(api.remoteCalls) = 1 /\ api.req.body.user.present) =>
         /\ Forwarded.shape = "user"
         /\ Forwarded.email = SanitizeOptional(api.req.body.user.email).value
         /\ Forwarded.phone = SanitizeOptional(api.req.body.user.phone).value
         /\ Forwarded.name = SanitizeOptional(api.req.body.user.name).value
         /\ Forwarded.type = JsUndefined
         /\ Forwarded.value = JsUndefined
    /\ (Len(api.remoteCalls) = 1 /\ ~api.req.body.user.present) =>
         /\ api.req.body.target.present
         /\ Forwarded.shape = "target"
         /\ Forwarded.type = api.req.body.target.type
         /\ Forwarded.value \in {SanitizeInput(api.req.body.target.value).value,
                                 api.req.body.target.value}
         /\ Forwarded.email = JsUndefined
         /\ Forwarded.phone = JsUndefined
         /\ Forwarded.name = JsUndefined
    /\ (~api.req.body.user.present /\ ~api.req.body.target.present) =>
         /\ ApiFinished
         /\ api.statusCalls = <<400>>
         /\ api.remoteCalls = << >>


\* What getVortexConfig() gives during this request.
Resolution == GetVortexConfigSettled(ModuleState, promises, envApiKey)

\* The exceptions raised inside the handler's try: by config resolution, by
\* the access hook, by the Vortex client.
RaisedInHandler ==
  {api.hookResults[i].err : i \in {k \in 1..Len(api.hookResults) : api.hookResults[k].threw}}
  \cup {api.remoteResults[i].err :
          i \in {k \in 1..Len(api.remoteResults) : api.remoteResults[k].threw}}
  \cup (IF ~Resolution.ok /\ Len(api.caught) > 0 /\ api.caught[1] = Resolution.err
          THEN {Resolution.err}
          ELSE {})

\* The response is the 500 with the fixed message.
FixedFailure ==
  /\ api.statusCalls = <<500>>
  /\ api.sendCalls = <<ApiError(MsgProcessingError)>>

\* C25: an invitation handler sends one response and no more; its promise
\* never rejects. An exception raised by config resolution, by an access hook
\* or by the Vortex client ends the handler with status 500 and the fixed
\* message, and the exception's message is not in the response.
C25_OneResponseFixedMessage ==
  IsInvitation =>
    /\ Len(api.statusCalls) = Len(api.sendCalls)
    /\ Len(api.statusCalls) <= 1
    /\ ApiFinished <=> Len(api.sendCalls) = 1
    /\ api.promise # "rejected"
    /\ ~Resolution.ok =>
         api.pc \notin {"awaitAuthConfig", "awaitAuthenticateUser", "awaitHook", "awaitRemote"}
    /\ \A err \in RaisedInHandler :
         /\ ApiFinished
         /\ FixedFailure
         /\ err.message \notin SentTexts
         /\ api.caught[Len(api.caught)] = err

\* The Vortex client's call has rejected and the request was answered with
\* the 500.
C25_Witness ==
  /\ IsInvitation
  /\ Len(api.remoteResults) = 1
  /\ api.remoteResults[1].threw
  /\ RaisedInHandler = {RemoteError}
  /\ FixedFailure


\* The strings forwarded to acceptInvitations for this request: the ids, and
\* the email, phone, name and target value that are strings.
ForwardedStrings ==
  {api.remoteCalls[1].ids[i] : i \in 1..Len(api.remoteCalls[1].ids)}
  \cup {v \in {Forwarded.email, Forwarded.phone, Forwarded.name, Forwarded.value} :
          v.kind = "string"}

\* A string as sanitizeInput returns it: none of the characters < > ' " and
\* at most 1000 characters.
Sanitized(v) ==
  /\ v.kind = "string"
  /\ RemoveXss(v.runs) = v.runs
  /\ Length(v.runs) <= MaxSanitizedLength

\* C30: every string that handleAcceptInvitations forwards to acceptInvitations,
\* each invitation id and the email, phone, name or legacy target value, is an
\* output of sanitizeInput: free of the characters < > ' " and at most 1000
\* characters long.
C30_ForwardedStringsSanitized ==
  (IsAccept /\ Len(api.remoteCalls) = 1) => \A v \in ForwardedStrings : Sanitized(v)

====
